---- MODULE Spec2Model ----
(***************************************************************************)
(* Attendance time-calculation engine of attendance-app-gps:               *)
(*   - calculatePeriod        (js/monthly.js)  closing-day window          *)
(*   - calculateDayWorkData   (js/monthly.js)  per-day figures             *)
(*   - calculateWorkTime      (js/timecard-history.js, js/monthly.js)      *)
(*   - calculateMonthlySummary(js/monthly.js)  per-employee fold           *)
(* Dates are local civil dates (the application runs in ja-JP, no DST): a  *)
(* Date value is [day |-> days since 1970-01-01, ms |-> ms since 00:00].   *)
(***************************************************************************)
EXTENDS Integers, Sequences, FiniteSets, TLC

VARIABLES
    periodArgs,     \* arguments (year, month, closingDay) of calculatePeriod
    period,         \* its return value { periodStart, periodEnd }, or NoValue
    dayRecords,     \* one employee-day's records, ascending by timestamp
    employeeConfig, \* the employee's settings handed to calculateDayWorkData
    clock,          \* the current instant (new Date())
    dayData,        \* return value of calculateDayWorkData (js/monthly.js)
    workTime,       \* return value of calculateWorkTime (js/timecard-history.js)
    adminWorkTime,  \* return value of calculateWorkTime (js/monthly.js)
    attendance,     \* the documents of the Firestore collection 'attendance'
    users,          \* the documents of the Firestore collection 'users', by uid
    form,           \* the inputs of the monthly summary screen
    monthlySummaryData, \* module variable of js/monthly.js: the last summaries
    summaryRun,     \* the requests of calculateMonthlySummary: how many so far,
                    \* and the message and the Firestore reads of the last one
    history,        \* what loadHistoryRecords put on the history screen
    monthlySummaries, \* the documents of the collection 'monthly_summaries',
                    \* by document id
    buttons,        \* the punch buttons of the recording page that are enabled
    calls,          \* the calls of recordAttendance and loadTodayRecords that
                    \* wait for Firestore, each with the await it is at
    todayRecordsCache, \* module variable of the recording module
    attendanceHistory, \* the documents of the collection 'attendance_history'
    pipeline        \* the run of the agent orchestrator: the agents invoked,
                    \* what they returned and the exit code

vars == << periodArgs, period, dayRecords, employeeConfig, clock,
           dayData, workTime, adminWorkTime, attendance, users, form,
           monthlySummaryData, summaryRun, history, monthlySummaries,
           buttons, calls, todayRecordsCache, attendanceHistory, pipeline >>

periodVars == << periodArgs, period >>
dayVars == << dayRecords, employeeConfig, clock, dayData, workTime, adminWorkTime >>
aggVars == << attendance, users, form, monthlySummaryData, summaryRun, history,
             monthlySummaries >>
pageVars == << buttons, calls, todayRecordsCache >>
otherVars == << pageVars, attendanceHistory, pipeline >>

\* a variable that holds no value yet (JavaScript undefined)
NoValue == [undefined |-> TRUE]
\* JavaScript null
Null == [null |-> TRUE]

\* the recording page is not open
PageClosed == buttons = {} /\ calls = << >> /\ todayRecordsCache = << >>

----------------------------------------------------------------------------
(* ECMAScript Date arithmetic (ECMA-262, 21.4.1)                           *)

MsPerMinute == 1000 * 60
MsPerDay == 24 * 60 * MsPerMinute

Max(a, b) == IF a >= b THEN a ELSE b

\* Years the model's calendar covers
CalendarYears == 2023..2026

DayFromYear(y) ==
    365 * (y - 1970) + ((y - 1969) \div 4) - ((y - 1901) \div 100) + ((y - 1601) \div 400)

InLeapYear(y) == DayFromYear(y + 1) - DayFromYear(y) = 366

\* length of month m (0..11) of year y
DaysInMonth(y, m) ==
    IF m = 1 THEN (IF InLeapYear(y) THEN 29 ELSE 28)
    ELSE IF m \in {3, 5, 8, 10} THEN 30 ELSE 31

\* days from 1 January of y to the first of month m (0..11): the table of
\* MonthFromTime (ECMA-262, 21.4.1.11)
DayWithinYearOfMonth(y, m) ==
    << 0, 31, 59, 90, 120, 151, 181, 212, 243, 273, 304, 334 >>[m + 1]
        + (IF m >= 2 /\ InLeapYear(y) THEN 1 ELSE 0)

\* MakeDay(year, month, date): month may lie outside 0..11 and date outside
\* the month; both roll over into the neighbouring months / years
MakeDay(year, month, date) ==
    LET ym == year + (month \div 12)
        mn == month % 12
    IN  DayFromYear(ym) + DayWithinYearOfMonth(ym, mn) + date - 1

YearFromDay(t) == CHOOSE y \in CalendarYears : DayFromYear(y) <= t /\ t < DayFromYear(y + 1)

MonthFromDay(t) ==
    LET y == YearFromDay(t)
        n == t - DayFromYear(y)
    IN  CHOOSE m \in 0..11 :
            /\ DayWithinYearOfMonth(y, m) <= n
            /\ n < DayWithinYearOfMonth(y, m) + DaysInMonth(y, m)

DateFromDay(t) ==
    LET y == YearFromDay(t)
    IN  t - DayFromYear(y) - DayWithinYearOfMonth(y, MonthFromDay(t)) + 1

\* Date.prototype.getDay: 0 = Sunday .. 6 = Saturday
WeekDay(t) == (t + 4) % 7

\* new Date(year, monthIndex, day)
NewDate(year, monthIndex, day) == [day |-> MakeDay(year, monthIndex, day), ms |-> 0]

\* Date.prototype.setMonth(month): keeps the day-of-month, rolls over
SetMonth(date, month) ==
    [date EXCEPT !.day = MakeDay(YearFromDay(date.day), month, DateFromDay(date.day))]

\* Date.prototype.setHours(h, m, s, ms)
SetHours(date, h, m, s, ms) ==
    [date EXCEPT !.ms = ((h * 60 + m) * 60 + s) * 1000 + ms]

\* a - b in milliseconds
DateDiff(a, b) == (a.day - b.day) * MsPerDay + (a.ms - b.ms)

DateLE(a, b) == a.day < b.day \/ (a.day = b.day /\ a.ms <= b.ms)
DateLT(a, b) == a.day < b.day \/ (a.day = b.day /\ a.ms < b.ms)

----------------------------------------------------------------------------
(* calculatePeriod (js/monthly.js)                                         *)

DefaultClosingDay == 25

calculatePeriod(year, month, closingDay) ==
    LET created == NewDate(year, month - 1, closingDay + 1)
        shifted == SetMonth(created, MonthFromDay(created.day) - 1)
        periodStart == SetHours(shifted, 0, 0, 0, 0)
        periodEnd == SetHours(NewDate(year, month - 1, closingDay), 23, 59, 59, 999)
    IN  [periodStart |-> periodStart, periodEnd |-> periodEnd]

\* inputs of the period resolver
PeriodYears == {2024, 2025}
Months == 1..12
ClosingDays == 1..31

InitPeriod ==
    /\ periodArgs \in [year : PeriodYears, month : Months, closingDay : ClosingDays]
    /\ period = NoValue
    /\ dayRecords = << >>
    /\ employeeConfig = Null
    /\ clock = NoValue
    /\ dayData = NoValue
    /\ workTime = NoValue
    /\ adminWorkTime = NoValue
    /\ attendance = {}
    /\ users = << >>
    /\ form = NoValue
    /\ monthlySummaryData = << >>
    /\ summaryRun = NoValue
    /\ history = NoValue
    /\ monthlySummaries = << >>
    /\ PageClosed
    /\ attendanceHistory = << >>
    /\ pipeline = NoValue

CalculatePeriod ==
    /\ period = NoValue
    /\ period' = calculatePeriod(periodArgs.year, periodArgs.month, periodArgs.closingDay)
    /\ UNCHANGED periodArgs
    /\ UNCHANGED dayVars
    /\ UNCHANGED aggVars
    /\ UNCHANGED otherVars

NextPeriod == CalculatePeriod

SpecPeriod == InitPeriod /\ [][NextPeriod]_vars

\* C7: for every (year, month, closingDay) the closing-day window starts at
\* 00:00:00.000 on day closingDay+1 of the previous month (rolling over when
\* that day does not exist) and ends at 23:59:59.999 on day closingDay of the
\* given month.
C7_ClosingDayWindow ==
    period # NoValue =>
        /\ period.periodStart =
              [day |-> MakeDay(periodArgs.year, periodArgs.month - 2, periodArgs.closingDay + 1),
               ms |-> 0]
        /\ period.periodEnd =
              [day |-> MakeDay(periodArgs.year, periodArgs.month - 1, periodArgs.closingDay),
               ms |-> MsPerDay - 1]

----------------------------------------------------------------------------
(* IEEE-754 binary64 arithmetic of the overtime computation                *)
(*   workHours = workMinutes / 60                                          *)
(*   overtimeHours = Math.max(0, workHours - standardWorkHours)            *)
(*   overtimeMinutes = Math.floor(overtimeHours * 60)                      *)
(* A double x obtained from workMinutes / 60 is kept exactly as            *)
(*   [n, d, e]  with  60 * x = n + d * 2^(e - 52),                         *)
(* where e is the binary exponent of x and d * 2^(e - 52) / 60 the         *)
(* rounding error of the division (|d| <= 30).                             *)

RECURSIVE FloorLog2(_)
FloorLog2(n) == IF n <= 1 THEN 0 ELSE 1 + FloorLog2(n \div 2)

RECURSIVE Pow2(_)
Pow2(k) == IF k <= 0 THEN 1 ELSE 2 * Pow2(k - 1)

RECURSIVE Pow2Mod60(_)
Pow2Mod60(k) == IF k <= 0 THEN 1 ELSE (2 * Pow2Mod60(k - 1)) % 60

RECURSIVE NegExponent(_)
\* binary exponent of w / 60 for 0 < w < 60
NegExponent(w) == IF w >= 60 THEN 0 ELSE NegExponent(2 * w) - 1

\* workMinutes / 60 for workMinutes > 0, rounded to nearest: the 53-bit
\* significand is w * 2^(52 - e) / 60 rounded, R its remainder (R = 30, a
\* tie, cannot occur because 4 divides w * 2^(52 - e) and 60 but not 30)
DivideBy60(w) ==
    LET e == IF w >= 60 THEN FloorLog2(w \div 60) ELSE NegExponent(w)
        R == ((w % 60) * Pow2Mod60(52 - e)) % 60
    IN  [n |-> w, d |-> IF R <= 30 THEN 0 - R ELSE 60 - R, e |-> e]

\* workHours - standardWorkHours for a whole number of hours: the difference
\* of the two doubles is itself a double, so the subtraction is exact
SubtractHours(x, hours) == [x EXCEPT !.n = x.n - 60 * hours]

\* exponent of the doubles immediately below the integer N >= 1
ExponentBelow(N) ==
    IF Pow2(FloorLog2(N)) = N THEN FloorLog2(N) - 1 ELSE FloorLog2(N)

\* Math.floor(x * 60) for x > 0: the exact product is N + d * 2^(e - 52)
\* with N = x.n; it rounds to a double below N exactly when d < 0 and
\* |d| * 2^(e - 52) exceeds half the spacing 2^(ExponentBelow(N) - 52) of
\* the doubles below N (a tie rounds to N, whose significand is even)
FloorTimes60(x) ==
    LET below == ExponentBelow(x.n)
        roundsBelow ==
            /\ x.d < 0
            /\ \/ below < 0
               \/ (0 - x.d) * Pow2(x.e + 1) > Pow2(below)
    IN  IF roundsBelow THEN x.n - 1 ELSE x.n

\* lines 117-124 of js/monthly.js
OvertimeMinutes(workMinutes, standardWorkHours) ==
    IF workMinutes <= 60 * standardWorkHours
    THEN 0      \* workHours - standardWorkHours <= 0, Math.max gives 0
    ELSE FloorTimes60(SubtractHours(DivideBy60(workMinutes), standardWorkHours))

----------------------------------------------------------------------------
(* Attendance records and employee settings                                *)

PunchTypes == {"clock_in", "clock_out", "break_start", "break_end"}
LeaveTypes == {"paid_leave", "absence"}
RecordTypes == PunchTypes \cup LeaveTypes

\* DEFAULT_SETTINGS (js/monthly.js); standardWorkTime in hours
DEFAULT_SETTINGS ==
    [startTime |-> "09:00", endTime |-> "18:00", breakTime |-> 60, standardWorkTime |-> 8]

\* 'HH:MM'.split(':').map(Number)
SplitTime(s) ==
    CASE s = "09:00" -> << 9, 0 >>
      [] s = "08:40" -> << 8, 40 >>
      [] s = "18:00" -> << 18, 0 >>
      [] s = "17:30" -> << 17, 30 >>

\* employeeConfig?.field || DEFAULT_SETTINGS.field ('' and 0 are falsy)
\* the start time of the default settings, whatever the employee's own
DefaultStartTime(config) == DEFAULT_SETTINGS.startTime

ConfigStartTime(config) ==
    IF config = Null \/ config.startTime = "" THEN DEFAULT_SETTINGS.startTime
    ELSE config.startTime

ConfigEndTime(config) ==
    IF config = Null \/ config.endTime = "" THEN DEFAULT_SETTINGS.endTime
    ELSE config.endTime

ConfigStandardWorkTime(config) ==
    IF config = Null \/ config.standardWorkTime = 0 THEN DEFAULT_SETTINGS.standardWorkTime
    ELSE config.standardWorkTime

\* Array.prototype.find(r => r.type === type): first such record, or NoValue
RECURSIVE Find(_, _)
Find(records, type) ==
    IF records = << >> THEN NoValue
    ELSE IF Head(records).type = type THEN Head(records)
    ELSE Find(Tail(records), type)

\* Array.prototype.some(r => r.type === type)
Some(records, type) == \E i \in 1..Len(records) : records[i].type = type

\* a holiday test that knows Sunday only
isHolidaySundayOnly(date) == WeekDay(date.day) = 0

\* isHoliday (js/monthly.js)
isHoliday(date) == WeekDay(date.day) = 0 \/ WeekDay(date.day) = 6

----------------------------------------------------------------------------
(* calculateDayWorkData (js/monthly.js)                                    *)

\* line 116
\* the elapsed minutes rounded up instead of down
WorkMinutesRoundedUp(clockInTime, clockOutTime) ==
    (DateDiff(clockOutTime, clockInTime) + MsPerMinute - 1) \div MsPerMinute

WorkMinutes(clockInTime, clockOutTime) == DateDiff(clockOutTime, clockInTime) \div MsPerMinute

\* lines 128-130 and 137-139: the schedule time on the date of `instant`
AtScheduleTime(instant, hhmm) ==
    SetHours(instant, SplitTime(hhmm)[1], SplitTime(hhmm)[2], 0, 0)

\* line 132
LateMinutes(clockInTime, standardStart) ==
    IF DateLT(standardStart, clockInTime)
    THEN DateDiff(clockInTime, standardStart) \div MsPerMinute
    ELSE 0

\* the signed distance to the end time, without the test of line 141
EarlyLeaveMinutesUnclamped(clockOutTime, standardEnd) ==
    IF DateLT(clockOutTime, standardEnd)
    THEN DateDiff(standardEnd, clockOutTime) \div MsPerMinute
    ELSE 0 - (DateDiff(clockOutTime, standardEnd) \div MsPerMinute)

\* line 141
EarlyLeaveMinutes(clockOutTime, standardEnd) ==
    IF DateLT(clockOutTime, standardEnd)
    THEN DateDiff(standardEnd, clockOutTime) \div MsPerMinute
    ELSE 0

\* the fields workHours and overtimeHours (doubles, not read by any caller)
\* are not part of the modelled return value
calculateDayWorkData(records, config, date) ==
    LET clockIn == Find(records, "clock_in")
        clockOut == Find(records, "clock_out")
    IN  IF clockIn = NoValue THEN Null
        ELSE IF clockOut = NoValue THEN Null
        ELSE
            LET clockInTime == clockIn.timestamp
                clockOutTime == clockOut.timestamp
                workMinutes == WorkMinutes(clockInTime, clockOutTime)
                standardWorkHours == ConfigStandardWorkTime(config)
                overtimeMinutes == OvertimeMinutes(workMinutes, standardWorkHours)
                standardStart == AtScheduleTime(clockInTime, ConfigStartTime(config))
                lateMinutes == LateMinutes(clockInTime, standardStart)
                standardEnd == AtScheduleTime(clockOutTime, ConfigEndTime(config))
                earlyLeaveMinutes == EarlyLeaveMinutes(clockOutTime, standardEnd)
                workDate == IF date = Null THEN clockInTime ELSE date
            IN  [workMinutes |-> workMinutes,
                 overtimeMinutes |-> overtimeMinutes,
                 lateMinutes |-> lateMinutes,
                 isLate |-> lateMinutes > 0,
                 earlyLeaveMinutes |-> earlyLeaveMinutes,
                 isEarlyLeave |-> earlyLeaveMinutes > 0,
                 isHolidayWork |-> isHoliday(workDate)]

----------------------------------------------------------------------------
(* calculateWorkTime (js/timecard-history.js, js/monthly.js)               *)

\* index of the first break_end after position i, 0 when there is none
RECURSIVE FirstBreakEndAfter(_, _)
FirstBreakEndAfter(records, i) ==
    IF i >= Len(records) THEN 0
    ELSE IF records[i + 1].type = "break_end" THEN i + 1
    ELSE FirstBreakEndAfter(records, i + 1)

\* the nested loops that build breakPairs, from position i on
RECURSIVE BreakPairsFrom(_, _)
BreakPairsFrom(records, i) ==
    IF i > Len(records) THEN << >>
    ELSE
        LET j == FirstBreakEndAfter(records, i)
        IN  IF records[i].type = "break_start" /\ j # 0
            THEN << [start |-> records[i].timestamp, end |-> records[j].timestamp] >>
                     \o BreakPairsFrom(records, i + 1)
            ELSE BreakPairsFrom(records, i + 1)

BreakPairs(records) == BreakPairsFrom(records, 1)

\* breakPairs.forEach(pair => breakMs += pair.end - pair.start)
RECURSIVE BreakMs(_)
BreakMs(pairs) ==
    IF pairs = << >> THEN 0
    ELSE DateDiff(Head(pairs).end, Head(pairs).start) + BreakMs(Tail(pairs))

\* JavaScript a % b for b > 0: the sign follows the dividend
JsRemainder(a, b) == IF a >= 0 THEN a % b ELSE 0 - ((0 - a) % b)

\* workMs -> { hours, minutes }
HoursMinutes(workMs) ==
    LET totalMinutes == workMs \div MsPerMinute
    IN  [hours |-> totalMinutes \div 60, minutes |-> JsRemainder(totalMinutes, 60)]

\* calculateWorkTime(records) of js/timecard-history.js
calculateWorkTime(records, now) ==
    LET clockIn == Find(records, "clock_in")
        clockOut == Find(records, "clock_out")
    IN  IF clockIn = NoValue THEN Null
        ELSE
            LET startTime == clockIn.timestamp
                endTime == IF clockOut # NoValue THEN clockOut.timestamp ELSE now
                totalMs == DateDiff(endTime, startTime)
                workMs == totalMs - BreakMs(BreakPairs(records))
            IN  [hours |-> HoursMinutes(workMs).hours,
                 minutes |-> HoursMinutes(workMs).minutes,
                 isFinished |-> clockOut # NoValue,
                 isOnBreak |-> Len(records) > 0
                                  /\ records[Len(records)].type = "break_start"]

\* toLocaleDateString('ja-JP'): 'Y/M/D', kept as the triple << Y, M, D >>
\* year, month and date of every day of the calendar
DateKeyOfDay ==
    [t \in DayFromYear(2023)..(DayFromYear(2027) - 1) |->
        << YearFromDay(t), MonthFromDay(t) + 1, DateFromDay(t) >>]

DateKey(date) == DateKeyOfDay[date.day]

\* Array.prototype.sort((a, b) => a.timestamp - b.timestamp): stable insertion
RECURSIVE InsertByTimestamp(_, _)
InsertByTimestamp(sorted, r) ==
    IF sorted = << >> THEN << r >>
    ELSE IF DateLT(r.timestamp, Head(sorted).timestamp) THEN << r >> \o sorted
    ELSE << Head(sorted) >> \o InsertByTimestamp(Tail(sorted), r)

RECURSIVE SortByTimestamp(_)
SortByTimestamp(records) ==
    IF records = << >> THEN << >>
    ELSE InsertByTimestamp(SortByTimestamp(SubSeq(records, 1, Len(records) - 1)),
                           records[Len(records)])

\* the nested loops of js/monthly.js that add up breakMs, from position i on
RECURSIVE BreakMsFrom(_, _)
BreakMsFrom(records, i) ==
    IF i > Len(records) THEN 0
    ELSE
        LET j == FirstBreakEndAfter(records, i)
        IN  (IF records[i].type = "break_start" /\ j # 0
             THEN DateDiff(records[j].timestamp, records[i].timestamp)
             ELSE 0) + BreakMsFrom(records, i + 1)

\* calculateWorkTime(records, userId, date) of js/monthly.js; the returned
\* string `${hours}時間${minutes}分` is kept as [hours, minutes]
calculateWorkTimeMonthly(records, userId, date, now) ==
    LET dayRecs == SortByTimestamp(SelectSeq(records,
                       LAMBDA r : r.userId = userId /\ DateKey(r.timestamp) = date))
        clockIn == Find(dayRecs, "clock_in")
        clockOut == Find(dayRecs, "clock_out")
    IN  IF dayRecs = << >> THEN Null
        ELSE IF clockIn = NoValue THEN Null
        ELSE
            LET startTime == clockIn.timestamp
                endTime == IF clockOut # NoValue THEN clockOut.timestamp ELSE now
                totalMs == DateDiff(endTime, startTime)
                workMs == totalMs - BreakMsFrom(dayRecs, 1)
            IN  HoursMinutes(workMs)

----------------------------------------------------------------------------
(* One employee-day: the inputs and the three calculations                 *)

\* longest day record list
MaxDayRecords == 4

TimeOfDay(h, m, s) == ((h * 60 + m) * 60 + s) * 1000

\* punch times of the day, ascending
DayTimes ==
    << TimeOfDay(9, 0, 0), TimeOfDay(9, 0, 30), TimeOfDay(9, 20, 0), TimeOfDay(12, 0, 0),
       TimeOfDay(13, 0, 0), TimeOfDay(17, 2, 0), TimeOfDay(18, 0, 0) >>

\* Friday 2025-01-24, Saturday 2025-01-25 and Sunday 2025-01-26
WorkDays == { MakeDay(2025, 0, 24), MakeDay(2025, 0, 25), MakeDay(2025, 0, 26) }

NowTimes == { TimeOfDay(18, 30, 0), TimeOfDay(20, 0, 0) }

DayUser == "u1"

EmployeeConfigs ==
    { Null,
      [startTime |-> "", endTime |-> "", breakTime |-> 0, standardWorkTime |-> 0],
      [startTime |-> "08:40", endTime |-> "17:30", breakTime |-> 45, standardWorkTime |-> 7] }

\* the date all records of the list lie on
WorkDate == [day |-> dayRecords[1].timestamp.day, ms |-> 0]

InitDay ==
    /\ dayRecords = << >>
    /\ employeeConfig = NoValue
    /\ clock = NoValue
    /\ dayData = NoValue
    /\ workTime = NoValue
    /\ adminWorkTime = NoValue
    /\ periodArgs = NoValue
    /\ period = NoValue
    /\ attendance = {}
    /\ users = << >>
    /\ form = NoValue
    /\ monthlySummaryData = << >>
    /\ summaryRun = NoValue
    /\ history = NoValue
    /\ monthlySummaries = << >>
    /\ PageClosed
    /\ attendanceHistory = << >>
    /\ pipeline = NoValue

NothingCalculated ==
    dayData = NoValue /\ workTime = NoValue /\ adminWorkTime = NoValue /\ history = NoValue

\* A punch (recordAttendance) or a manual entry (addManualRecord) adds a
\* record of the employee-day; records arrive in timestamp order, so the
\* day's list is what the queries ordered by timestamp return
AddDayRecord ==
    /\ NothingCalculated
    /\ Len(dayRecords) < MaxDayRecords
    /\ \E day \in WorkDays, i \in 1..Len(DayTimes), type \in PunchTypes :
          /\ dayRecords # << >> =>
                /\ day = dayRecords[1].timestamp.day
                /\ DayTimes[i] > dayRecords[Len(dayRecords)].timestamp.ms
          /\ dayRecords' = Append(dayRecords,
                [userId |-> DayUser, type |-> type,
                 timestamp |-> [day |-> day, ms |-> DayTimes[i]]])
    /\ UNCHANGED << employeeConfig, clock, dayData, workTime, adminWorkTime >>
    /\ UNCHANGED periodVars
    /\ UNCHANGED otherVars
    /\ UNCHANGED aggVars

\* calculateMonthlySummary's call (js/monthly.js line 321) for one day of an
\* employee whose settings are `config`
CalculateDayWorkData ==
    /\ NothingCalculated
    /\ dayRecords # << >>
    /\ \E config \in EmployeeConfigs :
          /\ employeeConfig' = config
          /\ dayData' = calculateDayWorkData(SortByTimestamp(dayRecords), config, WorkDate)
    /\ UNCHANGED << dayRecords, clock, workTime, adminWorkTime >>
    /\ UNCHANGED periodVars
    /\ UNCHANGED otherVars
    /\ UNCHANGED aggVars

\* updateWorkTimeDisplay calls calculateWorkTime(records) on today's records
\* (queried in ascending order) at the instant `now`
CalculateWorkTime ==
    /\ NothingCalculated
    /\ dayRecords # << >>
    /\ \E now \in NowTimes :
          /\ clock' = [day |-> WorkDate.day, ms |-> now]
          /\ workTime' = calculateWorkTime(dayRecords, clock')
    /\ UNCHANGED << dayRecords, employeeConfig, dayData, adminWorkTime >>
    /\ UNCHANGED periodVars
    /\ UNCHANGED otherVars
    /\ UNCHANGED aggVars

\* a call calculateWorkTime(records, userId, date) of js/monthly.js at the
\* instant `now`
CalculateWorkTimeMonthly ==
    /\ NothingCalculated
    /\ dayRecords # << >>
    /\ \E now \in NowTimes :
          /\ clock' = [day |-> WorkDate.day, ms |-> now]
          /\ adminWorkTime' =
                calculateWorkTimeMonthly(dayRecords, DayUser, DateKey(WorkDate), clock')
    /\ UNCHANGED << dayRecords, employeeConfig, dayData, workTime >>
    /\ UNCHANGED periodVars
    /\ UNCHANGED otherVars
    /\ UNCHANGED aggVars

NextDay == AddDayRecord \/ CalculateDayWorkData \/ CalculateWorkTime \/ CalculateWorkTimeMonthly

SpecDay == InitDay /\ [][NextDay]_vars

----------------------------------------------------------------------------
(* calculateMonthlySummary (js/monthly.js)                                 *)

\* (minutes / 60).toFixed(1), kept as a number of tenths of an hour.  The
\* quotient is the double DivideBy60(minutes); toFixed rounds its exact value
\* to the nearest tenth and takes the larger one when both are equally near,
\* so a quotient at x.05 goes up unless the division rounded it down
RECURSIVE ToFixedHours(_)
ToFixedHours(minutes) ==
    IF minutes = 0 THEN 0
    ELSE IF minutes < 0 THEN 0 - ToFixedHours(0 - minutes)
    ELSE IF minutes % 6 < 3 THEN minutes \div 6
    ELSE IF minutes % 6 > 3 THEN (minutes \div 6) + 1
    ELSE IF DivideBy60(minutes).d >= 0 THEN (minutes \div 6) + 1
    ELSE minutes \div 6

\* the rate with expectedWorkingDays = 22, the weekdays of the window
\* 2024-12-26..2025-01-25
AttendanceRateOfWeekdays(workingDays) == (2000 * workingDays + 22) \div 44

\* ((workingDays / expectedWorkingDays) * 100).toFixed(1) in tenths of a
\* percent, expectedWorkingDays = 20: the product differs from 5 * workingDays
\* by rounding errors far below a tenth
AttendanceRate(workingDays) == 50 * workingDays

\* the accounts that sign in
UserIds == {"u1", "u2"}

\* the collection 'users' at the start: u1's document, with the schedule the
\* administrator stored in it (saveWorkTime, js/employees.js); u2 has no document yet
UsersCollection ==
    [id \in {"u1"} |->
        [startTime |-> "08:40", endTime |-> "17:30", breakTime |-> 45, standardWorkTime |-> 7]]

\* the document saveUserInfo creates: no schedule field ('' and 0 stand for
\* an absent field)
NewUserDoc == [startTime |-> "", endTime |-> "", breakTime |-> 0, standardWorkTime |-> 0]

\* loadEmployeeData: the settings of every document of 'users', with the
\* defaults filled in
loadEmployeeData ==
    [id \in DOMAIN users |->
        [startTime |-> IF users[id].startTime = ""
                       THEN DEFAULT_SETTINGS.startTime ELSE users[id].startTime,
         endTime |-> IF users[id].endTime = ""
                     THEN DEFAULT_SETTINGS.endTime ELSE users[id].endTime,
         breakTime |-> IF users[id].breakTime = 0
                       THEN DEFAULT_SETTINGS.breakTime ELSE users[id].breakTime,
         standardWorkTime |-> IF users[id].standardWorkTime = 0
                              THEN DEFAULT_SETTINGS.standardWorkTime
                              ELSE users[id].standardWorkTime]]

\* rank of a record type, used only to order documents of equal timestamp
TypeRank(type) ==
    CASE type = "clock_in" -> 1 [] type = "break_start" -> 2 [] type = "break_end" -> 3
      [] type = "clock_out" -> 4 [] type = "paid_leave" -> 5 [] type = "absence" -> 6

UserRank(userId) == CASE userId = "u1" -> 1 [] userId = "u2" -> 2

\* order of the query results: by timestamp, ties by document
Before(a, b) ==
    \/ DateLT(a.timestamp, b.timestamp)
    \/ /\ a.timestamp = b.timestamp
       /\ \/ UserRank(a.userId) < UserRank(b.userId)
          \/ a.userId = b.userId /\ TypeRank(a.type) < TypeRank(b.type)

RECURSIVE OrderedByTimestamp(_)
OrderedByTimestamp(docs) ==
    IF docs = {} THEN << >>
    ELSE LET first == CHOOSE r \in docs : \A q \in docs \ {r} : Before(r, q)
         IN  << first >> \o OrderedByTimestamp(docs \ {first})

\* query(attendance, timestamp >= periodStart, timestamp <= periodEnd,
\*       orderBy(timestamp, asc))
QueryAttendance(docs, periodStart, periodEnd) ==
    OrderedByTimestamp({ r \in docs : /\ DateLE(periodStart, r.timestamp)
                                      /\ DateLE(r.timestamp, periodEnd) })

\* keys of an object filled while scanning `records`: distinct values of
\* Key(record) in order of first appearance
RECURSIVE KeysInOrder(_, _, _)
KeysInOrder(records, Key(_), seen) ==
    IF records = << >> THEN << >>
    ELSE IF Key(Head(records)) \in seen THEN KeysInOrder(Tail(records), Key, seen)
    ELSE << Key(Head(records)) >>
             \o KeysInOrder(Tail(records), Key, seen \cup { Key(Head(records)) })

UserIdOf(r) == r.userId
DateKeyOf(r) == DateKey(r.timestamp)

\* the counters of lines 288-298
ZeroTotals ==
    [workingDays |-> 0, totalWorkMinutes |-> 0, totalOvertimeMinutes |-> 0,
     latenessCount |-> 0, totalLatenessMinutes |-> 0,
     earlyLeaveCount |-> 0, totalEarlyLeaveMinutes |-> 0,
     holidayWorkDays |-> 0, holidayWorkMinutes |-> 0,
     paidLeaveDays |-> 0, absenceDays |-> 0]

\* the accumulation with the holiday totals fed by every worked day
AddDayDataEveryDayHoliday(totals, data) ==
    [totals EXCEPT
        !.workingDays = @ + 1,
        !.totalWorkMinutes = @ + data.workMinutes,
        !.totalOvertimeMinutes = @ + data.overtimeMinutes,
        !.holidayWorkDays = @ + 1,
        !.holidayWorkMinutes = @ + data.workMinutes,
        !.latenessCount = IF data.isLate THEN @ + 1 ELSE @,
        !.totalLatenessMinutes = IF data.isLate THEN @ + data.lateMinutes ELSE @,
        !.earlyLeaveCount = IF data.isEarlyLeave THEN @ + 1 ELSE @,
        !.totalEarlyLeaveMinutes = IF data.isEarlyLeave THEN @ + data.earlyLeaveMinutes ELSE @]

\* the accumulation without the tests of isLate and isEarlyLeave
AddDayDataCountsEveryDay(totals, data) ==
    [totals EXCEPT
        !.workingDays = @ + 1,
        !.totalWorkMinutes = @ + data.workMinutes,
        !.totalOvertimeMinutes = @ + data.overtimeMinutes,
        !.holidayWorkDays = IF data.isHolidayWork THEN @ + 1 ELSE @,
        !.holidayWorkMinutes = IF data.isHolidayWork THEN @ + data.workMinutes ELSE @,
        !.latenessCount = @ + 1,
        !.totalLatenessMinutes = @ + data.lateMinutes,
        !.earlyLeaveCount = @ + 1,
        !.totalEarlyLeaveMinutes = @ + data.earlyLeaveMinutes]

\* lines 327-347: a day for which calculateDayWorkData returned data
AddDayData(totals, data) ==
    [totals EXCEPT
        !.workingDays = @ + 1,
        !.totalWorkMinutes = @ + data.workMinutes,
        !.totalOvertimeMinutes = @ + data.overtimeMinutes,
        !.holidayWorkDays = IF data.isHolidayWork THEN @ + 1 ELSE @,
        !.holidayWorkMinutes = IF data.isHolidayWork THEN @ + data.workMinutes ELSE @,
        !.latenessCount = IF data.isLate THEN @ + 1 ELSE @,
        !.totalLatenessMinutes = IF data.isLate THEN @ + data.lateMinutes ELSE @,
        !.earlyLeaveCount = IF data.isEarlyLeave THEN @ + 1 ELSE @,
        !.totalEarlyLeaveMinutes = IF data.isEarlyLeave THEN @ + data.earlyLeaveMinutes ELSE @]

\* the loop body without the `continue` of line 310: a paid-leave day goes
\* on to the work-time calculation
DayStepLeaveFallsThrough(totals, dayRecs, config, dateKey) ==
    LET workDate == NewDate(dateKey[1], dateKey[2] - 1, dateKey[3])
        counted == IF Some(dayRecs, "paid_leave")
                   THEN [totals EXCEPT !.paidLeaveDays = @ + 1] ELSE totals
    IN  IF ~ Some(dayRecs, "paid_leave") /\ Some(dayRecs, "absence")
        THEN [totals EXCEPT !.absenceDays = @ + 1]
        ELSE LET data == calculateDayWorkData(SortByTimestamp(dayRecs), config, workDate)
             IN  IF data = Null THEN counted ELSE AddDayData(counted, data)

\* the loop body without the test of line 327: a day without work data is
\* counted as a working day
DayStepCountsOpenDay(totals, dayRecs, config, dateKey) ==
    LET workDate == NewDate(dateKey[1], dateKey[2] - 1, dateKey[3])
    IN  IF Some(dayRecs, "paid_leave") THEN [totals EXCEPT !.paidLeaveDays = @ + 1]
        ELSE IF Some(dayRecs, "absence") THEN [totals EXCEPT !.absenceDays = @ + 1]
        ELSE LET data == calculateDayWorkData(SortByTimestamp(dayRecs), config, workDate)
             IN  IF data = Null THEN [totals EXCEPT !.workingDays = @ + 1]
                 ELSE AddDayData(totals, data)

\* the loop body without the `continue` of line 317: an absence day goes on
\* to the work-time calculation
DayStepAbsenceFallsThrough(totals, dayRecs, config, dateKey) ==
    LET workDate == NewDate(dateKey[1], dateKey[2] - 1, dateKey[3])
        counted == IF Some(dayRecs, "absence")
                   THEN [totals EXCEPT !.absenceDays = @ + 1] ELSE totals
    IN  IF Some(dayRecs, "paid_leave") THEN [totals EXCEPT !.paidLeaveDays = @ + 1]
        ELSE LET data == calculateDayWorkData(SortByTimestamp(dayRecs), config, workDate)
             IN  IF data = Null THEN counted ELSE AddDayData(counted, data)

\* lines 301-347: the loop body for one date of one employee
DayStep(totals, dayRecs, config, dateKey) ==
    LET workDate == NewDate(dateKey[1], dateKey[2] - 1, dateKey[3])
    IN  IF Some(dayRecs, "paid_leave") THEN [totals EXCEPT !.paidLeaveDays = @ + 1]
        ELSE IF Some(dayRecs, "absence") THEN [totals EXCEPT !.absenceDays = @ + 1]
        ELSE LET data == calculateDayWorkData(SortByTimestamp(dayRecs), config, workDate)
             IN  IF data = Null THEN totals ELSE AddDayData(totals, data)

\* lines 278-353: group the employee's records by date and fold the dates
RECURSIVE FoldDays(_, _, _, _)
FoldDays(dateKeys, userRecords, config, totals) ==
    IF dateKeys = << >> THEN totals
    ELSE FoldDays(Tail(dateKeys), userRecords, config,
                  DayStep(totals,
                          SelectSeq(userRecords, LAMBDA r : DateKey(r.timestamp) = Head(dateKeys)),
                          config, Head(dateKeys)))

\* lines 355-383: the summary object pushed for one employee (the display
\* fields userName, averageWorkHours and usedPCs are left out)
SummaryOf(userId, totals, config) ==
    [userId |-> userId,
     workingDays |-> totals.workingDays,
     totalWorkHours |-> ToFixedHours(totals.totalWorkMinutes),
     totalOvertimeHours |-> ToFixedHours(totals.totalOvertimeMinutes),
     holidayWorkDays |-> totals.holidayWorkDays,
     holidayWorkHours |-> ToFixedHours(totals.holidayWorkMinutes),
     latenessCount |-> totals.latenessCount,
     totalLatenessMinutes |-> totals.totalLatenessMinutes,
     earlyLeaveCount |-> totals.earlyLeaveCount,
     totalEarlyLeaveMinutes |-> totals.totalEarlyLeaveMinutes,
     absenceDays |-> totals.absenceDays,
     paidLeaveDays |-> totals.paidLeaveDays,
     attendanceRate |-> AttendanceRate(totals.workingDays),
     employeeSettings |-> config]

\* lines 263-386: the loop over the employees found in the records
RECURSIVE SummarizeUsers(_, _, _, _)
SummarizeUsers(userIds, allRecords, employeeSettings, selectedUserId) ==
    IF userIds = << >> THEN << >>
    ELSE
        LET userId == Head(userIds)
            rest == SummarizeUsers(Tail(userIds), allRecords, employeeSettings, selectedUserId)
            userRecords == SelectSeq(allRecords, LAMBDA r : r.userId = userId)
        IN  IF selectedUserId # "" /\ userId # selectedUserId THEN rest
            ELSE IF userId \notin DOMAIN employeeSettings THEN rest
            ELSE << SummaryOf(userId,
                              FoldDays(KeysInOrder(userRecords, DateKeyOf, {}), userRecords,
                                       employeeSettings[userId], ZeroTotals),
                              employeeSettings[userId]) >> \o rest

\* new Date('YYYY-MM-DD') followed by setHours: the input's date, local time
DateOfInput(ymd) == NewDate(ymd[1], ymd[2] - 1, ymd[3])

\* the window without the check of lines 214-217
WindowOfUnchecked(f) ==
    IF f.periodType = "monthly"
    THEN calculatePeriod(f.targetYear, f.targetMonth, DefaultClosingDay)
    ELSE IF f.customStartDate = << >> \/ f.customEndDate = << >> THEN NoValue
    ELSE [periodStart |-> SetHours(DateOfInput(f.customStartDate), 0, 0, 0, 0),
          periodEnd |-> SetHours(DateOfInput(f.customEndDate), 23, 59, 59, 999)]

\* lines 191-218: the window of the request, or NoValue when the request is
\* rejected (a date missing, or the start after the end)
WindowOf(f) ==
    IF f.periodType = "monthly"
    THEN calculatePeriod(f.targetYear, f.targetMonth, DefaultClosingDay)
    ELSE IF f.customStartDate = << >> \/ f.customEndDate = << >> THEN NoValue
    ELSE LET periodStart == SetHours(DateOfInput(f.customStartDate), 0, 0, 0, 0)
             periodEnd == SetHours(DateOfInput(f.customEndDate), 23, 59, 59, 999)
         IN  IF DateLT(periodEnd, periodStart) THEN NoValue
             ELSE [periodStart |-> periodStart, periodEnd |-> periodEnd]

\* the value calculateMonthlySummary assigns to monthlySummaryData for the
\* stored documents `docs` and the window `window`
SummariesOf(docs, window, selectedUserId) ==
    LET allRecords == QueryAttendance(docs, window.periodStart, window.periodEnd)
    IN  SummarizeUsers(KeysInOrder(allRecords, UserIdOf, {}), allRecords,
                       loadEmployeeData, selectedUserId)

\* most documents the collection holds
MaxRecords == 3

\* date, type and time of the punches and manual entries: Friday 2025-01-24
\* (a clock-out of 08:00 lies before the clock-in, a break from 12:00 to
\* 13:00) and Sunday 2025-01-26 (after the January closing day)
PunchEntries ==
    { << << 2025, 1, 24 >>, "clock_in", TimeOfDay(9, 0, 0) >>,
      << << 2025, 1, 24 >>, "clock_out", TimeOfDay(8, 0, 0) >>,
      << << 2025, 1, 24 >>, "clock_out", TimeOfDay(18, 0, 0) >>,
      << << 2025, 1, 24 >>, "break_start", TimeOfDay(12, 0, 0) >>,
      << << 2025, 1, 24 >>, "break_end", TimeOfDay(13, 0, 0) >>,
      << << 2025, 1, 26 >>, "clock_in", TimeOfDay(9, 0, 0) >>,
      << << 2025, 1, 26 >>, "clock_out", TimeOfDay(17, 2, 0) >> }

\* dates of the paid leaves and absences
LeaveDates == { << 2025, 1, 24 >> }

\* inputs of the summary screen
Forms ==
    { [periodType |-> "monthly", targetYear |-> 2025, targetMonth |-> 1,
       customStartDate |-> << >>, customEndDate |-> << >>, monthlyEmployeeFilter |-> ""],
      [periodType |-> "monthly", targetYear |-> 2025, targetMonth |-> 1,
       customStartDate |-> << >>, customEndDate |-> << >>, monthlyEmployeeFilter |-> "u1"],
      [periodType |-> "custom", targetYear |-> 2025, targetMonth |-> 1,
       customStartDate |-> << 2025, 1, 24 >>, customEndDate |-> << 2025, 1, 26 >>,
       monthlyEmployeeFilter |-> ""],
      [periodType |-> "custom", targetYear |-> 2025, targetMonth |-> 1,
       customStartDate |-> << 2025, 1, 26 >>, customEndDate |-> << 2025, 1, 24 >>,
       monthlyEmployeeFilter |-> ""] }

\* no request made yet
NoRun == [runs |-> 0, messageType |-> "", getDocs |-> 0]

InitAgg ==
    /\ attendance = {}
    /\ users = UsersCollection
    /\ form = NoValue
    /\ monthlySummaryData = << >>
    /\ summaryRun = NoRun
    /\ history = NoValue
    /\ monthlySummaries = << >>
    /\ PageClosed
    /\ attendanceHistory = << >>
    /\ pipeline = NoValue
    /\ periodArgs = NoValue
    /\ period = NoValue
    /\ dayRecords = << >>
    /\ employeeConfig = NoValue
    /\ clock = NoValue
    /\ dayData = NoValue
    /\ workTime = NoValue
    /\ adminWorkTime = NoValue

\* saveUserInfo (js/timecard-auth.js) at sign-in: creates the account's
\* document when there is none.  initAuthStateObserver goes on when the write
\* fails, so an account can punch without a document
SaveUserInfo ==
    /\ form = NoValue
    /\ history = NoValue
    /\ \E uid \in UserIds \ DOMAIN users :
          users' = [id \in DOMAIN users \cup {uid} |->
                       IF id = uid THEN NewUserDoc ELSE users[id]]
    /\ UNCHANGED << attendance, form, monthlySummaryData, summaryRun, history, monthlySummaries >>
    /\ UNCHANGED periodVars
    /\ UNCHANGED otherVars
    /\ UNCHANGED dayVars

\* addDoc(collection(db, 'attendance'), data); the documents are entered
\* before the summary is requested or the history is opened
AddDoc(data) ==
    /\ form = NoValue
    /\ history = NoValue
    /\ Cardinality(attendance) < MaxRecords
    /\ data \notin attendance
    /\ attendance' = attendance \cup { data }

\* recordAttendance: a punch of the signed-in account.  The record editor
\* (js/auth.js lines 486-496) rewrites the timestamp of a stored record, so
\* the times of an account's records are in no fixed order
RecordAttendance ==
    /\ \E userId \in UserIds, entry \in PunchEntries :
          AddDoc([userId |-> userId, type |-> entry[2],
                  timestamp |-> [day |-> DateOfInput(entry[1]).day, ms |-> entry[3]]])
    /\ UNCHANGED << users, form, monthlySummaryData, summaryRun, history, monthlySummaries >>
    /\ UNCHANGED periodVars
    /\ UNCHANGED otherVars
    /\ UNCHANGED dayVars

\* addManualRecord: timestamp = new Date(`${date}T${time}:00`), for an
\* employee of the list loaded from 'users'
AddManualRecord ==
    /\ \E userId \in DOMAIN users, entry \in PunchEntries :
          AddDoc([userId |-> userId, type |-> entry[2],
                  timestamp |-> [day |-> DateOfInput(entry[1]).day, ms |-> entry[3]]])
    /\ UNCHANGED << users, form, monthlySummaryData, summaryRun, history, monthlySummaries >>
    /\ UNCHANGED periodVars
    /\ UNCHANGED otherVars
    /\ UNCHANGED dayVars

\* addPaidLeave: type 'paid_leave', timestamp = new Date(`${date}T09:00:00`)
AddPaidLeave ==
    /\ \E userId \in DOMAIN users, date \in LeaveDates :
          AddDoc([userId |-> userId, type |-> "paid_leave",
                  timestamp |-> [day |-> DateOfInput(date).day, ms |-> TimeOfDay(9, 0, 0)]])
    /\ UNCHANGED << users, form, monthlySummaryData, summaryRun, history, monthlySummaries >>
    /\ UNCHANGED periodVars
    /\ UNCHANGED otherVars
    /\ UNCHANGED dayVars

\* addAbsence: type 'absence', timestamp = new Date(`${date}T09:00:00`)
AddAbsence ==
    /\ \E userId \in DOMAIN users, date \in LeaveDates :
          AddDoc([userId |-> userId, type |-> "absence",
                  timestamp |-> [day |-> DateOfInput(date).day, ms |-> TimeOfDay(9, 0, 0)]])
    /\ UNCHANGED << users, form, monthlySummaryData, summaryRun, history, monthlySummaries >>
    /\ UNCHANGED periodVars
    /\ UNCHANGED otherVars
    /\ UNCHANGED dayVars

\* most requests the counter summaryRun.runs tells apart
MaxRuns == 2

\* the request without the reset of line 260: the summaries are pushed
\* behind those of the earlier runs
RequestMonthlySummaryKeepingOld ==
    /\ \E f \in Forms :
          /\ form' = f
          /\ IF WindowOf(f) = NoValue
             THEN /\ monthlySummaryData' = monthlySummaryData
                  /\ summaryRun' = [runs |-> IF summaryRun.runs < MaxRuns
                                             THEN summaryRun.runs + 1 ELSE MaxRuns,
                                    messageType |-> "error", getDocs |-> 0]
             ELSE IF DOMAIN loadEmployeeData = {}
             THEN /\ monthlySummaryData' = monthlySummaryData
                  /\ summaryRun' = [runs |-> IF summaryRun.runs < MaxRuns
                                             THEN summaryRun.runs + 1 ELSE MaxRuns,
                                    messageType |-> "warning", getDocs |-> 1]
             ELSE /\ monthlySummaryData' = monthlySummaryData
                        \o SummariesOf(attendance, WindowOf(f), f.monthlyEmployeeFilter)
                  /\ summaryRun' = [runs |-> IF summaryRun.runs < MaxRuns
                                             THEN summaryRun.runs + 1 ELSE MaxRuns,
                                    messageType |-> "success", getDocs |-> 2]
    /\ UNCHANGED << attendance, users, history, monthlySummaries >>
    /\ UNCHANGED periodVars
    /\ UNCHANGED otherVars
    /\ UNCHANGED dayVars

\* calculateMonthlySummary for the screen inputs f.  A rejected request
\* (lines 204-217) returns before anything is read; with no employee
\* document the run stops after loadEmployeeData (lines 225-228); otherwise
\* the records are queried and monthlySummaryData is assigned
RequestMonthlySummary ==
    /\ \E f \in Forms :
          /\ form' = f
          /\ IF WindowOf(f) = NoValue
             THEN /\ monthlySummaryData' = monthlySummaryData
                  /\ summaryRun' = [runs |-> IF summaryRun.runs < MaxRuns
                                             THEN summaryRun.runs + 1 ELSE MaxRuns,
                                    messageType |-> "error", getDocs |-> 0]
             ELSE IF DOMAIN loadEmployeeData = {}
             THEN /\ monthlySummaryData' = monthlySummaryData
                  /\ summaryRun' = [runs |-> IF summaryRun.runs < MaxRuns
                                             THEN summaryRun.runs + 1 ELSE MaxRuns,
                                    messageType |-> "warning", getDocs |-> 1]
             ELSE /\ monthlySummaryData' =
                        SummariesOf(attendance, WindowOf(f), f.monthlyEmployeeFilter)
                  /\ summaryRun' = [runs |-> IF summaryRun.runs < MaxRuns
                                             THEN summaryRun.runs + 1 ELSE MaxRuns,
                                    messageType |-> "success", getDocs |-> 2]
    /\ UNCHANGED << attendance, users, history, monthlySummaries >>
    /\ UNCHANGED periodVars
    /\ UNCHANGED otherVars
    /\ UNCHANGED dayVars

\* the administrator's first request on the stored documents
CalculateMonthlySummary == form = NoValue /\ RequestMonthlySummary

NextAgg ==
    \/ SaveUserInfo \/ RecordAttendance \/ AddManualRecord \/ AddPaidLeave \/ AddAbsence
    \/ CalculateMonthlySummary

SpecAgg == InitAgg /\ [][NextAgg]_vars

\* the administrator requesting summaries again and again on the stored
\* documents, with any inputs of the screen
NextRerun ==
    \/ SaveUserInfo \/ RecordAttendance \/ AddManualRecord \/ AddPaidLeave \/ AddAbsence
    \/ RequestMonthlySummary

SpecRerun == InitAgg /\ [][NextRerun]_vars

----------------------------------------------------------------------------
(* saveMonthlySummary (js/monthly.js)                                      *)

\* values of the fields targetYear and targetMonth when a summary is saved
SaveTargets == { << 2025, 1 >>, << 2025, 2 >> }

\* parseFloat(hours) * 60 for hours given with one decimal, from the number
\* of tenths (the product's rounding error, below 1e-11, is left out)
MinutesOfHours(tenths) == 6 * tenths

\* lines 459-497: the document written for `summary` when the fields of the
\* screen hold `year` and `month`
summaryDoc(summary, year, month) ==
    LET p == calculatePeriod(year, month, DefaultClosingDay)
    IN  [userId |-> summary.userId,
         targetYear |-> year,
         targetMonth |-> month,
         periodStart |-> DateKey(p.periodStart),
         periodEnd |-> DateKey(p.periodEnd),
         workingDays |-> summary.workingDays,
         totalWorkMinutes |-> MinutesOfHours(summary.totalWorkHours),
         overtimeMinutes |-> MinutesOfHours(summary.totalOvertimeHours),
         latenessCount |-> summary.latenessCount,
         latenessMinutes |-> summary.totalLatenessMinutes,
         earlyLeaveCount |-> summary.earlyLeaveCount,
         earlyLeaveMinutes |-> summary.totalEarlyLeaveMinutes,
         paidLeaveDays |-> summary.paidLeaveDays,
         absenceDays |-> summary.absenceDays,
         appliedSettings |-> summary.employeeSettings]

\* saveMonthlySummary(userId): the save button of a row of the table, so
\* the summary of userId is in monthlySummaryData; setDoc under the id
\* `${userId}_${year}_${month}`
SaveMonthlySummary ==
    /\ \E i \in 1..Len(monthlySummaryData), target \in SaveTargets :
          LET summary == monthlySummaryData[i]
              summaryId == << summary.userId, target[1], target[2] >>
          IN  monthlySummaries' =
                  [id \in DOMAIN monthlySummaries \cup { summaryId } |->
                      IF id = summaryId THEN summaryDoc(summary, target[1], target[2])
                      ELSE monthlySummaries[id]]
    /\ UNCHANGED << attendance, users, form, monthlySummaryData, summaryRun, history >>
    /\ UNCHANGED periodVars
    /\ UNCHANGED otherVars
    /\ UNCHANGED dayVars

NextSave ==
    \/ SaveUserInfo \/ RecordAttendance \/ AddManualRecord \/ AddPaidLeave \/ AddAbsence
    \/ CalculateMonthlySummary \/ SaveMonthlySummary

SpecSave == InitAgg /\ [][NextSave]_vars

----------------------------------------------------------------------------
(* loadHistoryRecords (js/timecard-history.js)                             *)

\* offset of local time from UTC: Japan Standard Time
LocalTZA == 9 * 60 * MsPerMinute

\* new Date('YYYY-MM-DD'): midnight UTC of the date, as a local instant
DateOfIsoString(ymd) == [day |-> DateOfInput(ymd).day, ms |-> LocalTZA]

\* the types typeConfig has an entry for (lines 160-165)
typeConfig == {"clock_in", "clock_out", "break_start", "break_end"}

\* the date range entered on the history screen
HistoryRanges ==
    { [historyStartDate |-> << 2025, 1, 24 >>, historyEndDate |-> << 2025, 1, 26 >>],
      [historyStartDate |-> << 2025, 1, 26 >>, historyEndDate |-> << 2025, 1, 26 >>],
      [historyStartDate |-> << 2025, 1, 26 >>, historyEndDate |-> << 2025, 1, 24 >>] }

\* the instant the history is opened at
HistoryNow == [day |-> MakeDay(2025, 0, 26), ms |-> TimeOfDay(18, 30, 0)]

\* query(..., orderBy('timestamp', 'desc')): the newest document first
RECURSIVE Reverse(_)
Reverse(records) ==
    IF records = << >> THEN << >>
    ELSE Append(Reverse(Tail(records)), Head(records))

\* lines 121-143: the account's documents of the range, newest first
QueryHistory(docs, userId, startDate, endDate) ==
    Reverse(OrderedByTimestamp({ r \in docs : /\ r.userId = userId
                                              /\ DateLE(startDate, r.timestamp)
                                              /\ DateLE(r.timestamp, endDate) }))

\* lines 156-197: one day group per date, in order of first appearance, each
\* with the result of calculateWorkTime on the group's records as they come
RECURSIVE DayGroups(_, _, _)
DayGroups(dateKeys, records, now) ==
    IF dateKeys = << >> THEN << >>
    ELSE LET dateRecords == SelectSeq(records, LAMBDA r : DateKey(r.timestamp) = Head(dateKeys))
         IN  << [date |-> Head(dateKeys),
                 records |-> dateRecords,
                 workTime |-> calculateWorkTime(dateRecords, now)] >>
                 \o DayGroups(Tail(dateKeys), records, now)

\* loadHistoryRecords(currentUser) for the dates of the screen (both filled
\* in and at most 60 days apart).  A start after the end is refused with an
\* alert; a record whose type has no entry in typeConfig makes
\* `config.class` throw inside the map, and the catch of lines 199-202
\* replaces the whole list by the failure message
HistoryOf(docs, currentUser, range) ==
    LET startDate == DateOfIsoString(range.historyStartDate)
        endDate == SetHours(DateOfIsoString(range.historyEndDate), 23, 59, 59, 999)
        records == QueryHistory(docs, currentUser, startDate, endDate)
    IN  IF DateLT(DateOfIsoString(range.historyEndDate), startDate)
        THEN [status |-> "alert", userId |-> currentUser, range |-> range, days |-> << >>]
        ELSE [status |-> IF records = << >> THEN "empty"
                         ELSE IF \E i \in 1..Len(records) : records[i].type \notin typeConfig
                         THEN "failed" ELSE "rendered",
              userId |-> currentUser,
              range |-> range,
              days |-> IF \E i \in 1..Len(records) : records[i].type \notin typeConfig
                       THEN << >>
                       ELSE DayGroups(KeysInOrder(records, DateKeyOf, {}), records, HistoryNow)]

\* the history page opened by an account on the stored documents
LoadHistoryRecords ==
    /\ \E currentUser \in UserIds, range \in HistoryRanges :
          /\ history' = HistoryOf(attendance, currentUser, range)
          /\ clock' = IF history'.status = "alert" THEN clock ELSE HistoryNow
    /\ UNCHANGED << attendance, users, form, monthlySummaryData, summaryRun, monthlySummaries >>
    /\ UNCHANGED << dayRecords, employeeConfig, dayData, workTime, adminWorkTime >>
    /\ UNCHANGED periodVars
    /\ UNCHANGED otherVars

NextHistory ==
    \/ SaveUserInfo \/ RecordAttendance \/ AddManualRecord \/ AddPaidLeave \/ AddAbsence
    \/ LoadHistoryRecords

SpecHistory == InitAgg /\ [][NextHistory]_vars

\* the history page opened when the stored documents are the records of
\* the employee-day
LoadHistoryOfDay ==
    /\ NothingCalculated
    /\ dayRecords # << >>
    /\ \E range \in HistoryRanges :
          /\ history' = HistoryOf({ dayRecords[i] : i \in 1..Len(dayRecords) }, DayUser, range)
          /\ clock' = IF history'.status = "alert" THEN clock ELSE HistoryNow
    /\ UNCHANGED << attendance, users, form, monthlySummaryData, summaryRun, monthlySummaries >>
    /\ UNCHANGED << dayRecords, employeeConfig, dayData, workTime, adminWorkTime >>
    /\ UNCHANGED periodVars
    /\ UNCHANGED otherVars

\* one employee-day at the three call sites of the day calculation: the
\* monthly aggregation, today's display and the history page
NextCallSites ==
    AddDayRecord \/ CalculateDayWorkData \/ CalculateWorkTime \/ LoadHistoryOfDay

SpecCallSites == InitDay /\ [][NextCallSites]_vars

----------------------------------------------------------------------------
(* The live display of today's working time (js/timecard-history.js)        *)

\* the instants at which startWorkTimeUpdate's interval first fires
DisplayStarts == { TimeOfDay(18, 29, 58), TimeOfDay(20, 0, 0) }

\* how many times the interval fires
MaxTicks == 3

\* the interval of startWorkTimeUpdate fires one second after the last time
\* and calls updateWorkTimeDisplay, which shows calculateWorkTime(todayRecords)
\* at that instant, or hides the area when there is nothing to show
UpdateWorkTimeDisplay ==
    /\ dayData = NoValue /\ adminWorkTime = NoValue /\ history = NoValue
    /\ dayRecords # << >>
    /\ IF clock = NoValue
          THEN \E start \in DisplayStarts : clock' = [day |-> WorkDate.day, ms |-> start]
          ELSE /\ \E start \in DisplayStarts :
                     clock.ms >= start /\ clock.ms < start + (MaxTicks - 1) * 1000
               /\ clock' = [clock EXCEPT !.ms = @ + 1000]
    /\ workTime' = calculateWorkTime(dayRecords, clock')
    /\ UNCHANGED << dayRecords, employeeConfig, dayData, adminWorkTime >>
    /\ UNCHANGED periodVars
    /\ UNCHANGED otherVars
    /\ UNCHANGED aggVars

NextDisplay == AddDayRecord \/ UpdateWorkTimeDisplay

SpecDisplay == InitDay /\ [][NextDisplay]_vars

----------------------------------------------------------------------------
(* The recording page: the punch buttons, recordAttendance, loadTodayRecords *)

\* the day the page is open on
Today == MakeDay(2025, 0, 24)

\* most calls waiting for Firestore at a time
MaxCalls == 2

\* updateButtonStates(records): the buttons it leaves enabled
updateButtonStates(records) ==
    IF Len(records) = 0 THEN {"clock_in"}
    ELSE IF Some(records, "clock_out") THEN {}
    ELSE IF Some(records, "clock_in")
         THEN {"clock_out"}
              \cup (IF records[Len(records)].type \in {"clock_in", "break_end"}
                       THEN {"break_start"} ELSE {})
              \cup (IF records[Len(records)].type = "break_start"
                       THEN {"break_end"} ELSE {})
    ELSE {"clock_in"}

RemoveAt(seq, i) == SubSeq(seq, 1, i - 1) \o SubSeq(seq, i + 1, Len(seq))

\* initializeRecordingModule has installed the click listeners and called
\* loadTodayRecords, which waits for its query; the account has no records
\* today.  The buttons are those updateButtonStates enabled: none so far
InitPage ==
    /\ buttons = {}
    /\ calls = << [type |-> "", await |-> "getDocs"] >>
    /\ todayRecordsCache = << >>
    /\ dayRecords = << >>
    /\ employeeConfig = NoValue
    /\ clock = NoValue
    /\ dayData = NoValue
    /\ workTime = NoValue
    /\ adminWorkTime = NoValue
    /\ periodArgs = NoValue
    /\ period = NoValue
    /\ attendance = {}
    /\ users = << >>
    /\ form = NoValue
    /\ monthlySummaryData = << >>
    /\ summaryRun = NoValue
    /\ history = NoValue
    /\ monthlySummaries = << >>
    /\ attendanceHistory = << >>
    /\ pipeline = NoValue

\* a click on an enabled button: recordAttendance disables the four buttons
\* and calls addDoc (lines 210-226)
RecordAttendanceStarts ==
    /\ Len(dayRecords) < MaxDayRecords
    /\ Len(calls) < MaxCalls
    /\ \E type \in buttons :
          calls' = Append(calls, [type |-> type, await |-> "addDoc"])
    /\ buttons' = {}
    /\ UNCHANGED << todayRecordsCache, attendanceHistory, pipeline >>
    /\ UNCHANGED periodVars
    /\ UNCHANGED dayVars
    /\ UNCHANGED aggVars

\* addDoc resolves: the record is stored with the server's time, and
\* recordAttendance goes on to loadTodayRecords (lines 228-239)
AddDocResolves ==
    /\ \E i \in 1..Len(calls), t \in 1..Len(DayTimes) :
          /\ calls[i].await = "addDoc"
          /\ dayRecords # << >> => DayTimes[t] > dayRecords[Len(dayRecords)].timestamp.ms
          /\ dayRecords' = Append(dayRecords,
                [userId |-> DayUser, type |-> calls[i].type,
                 timestamp |-> [day |-> Today, ms |-> DayTimes[t]]])
          /\ calls' = [calls EXCEPT ![i].await = "getDocs"]
    /\ UNCHANGED << buttons, todayRecordsCache, attendanceHistory, pipeline >>
    /\ UNCHANGED << employeeConfig, clock, dayData, workTime, adminWorkTime >>
    /\ UNCHANGED periodVars
    /\ UNCHANGED aggVars

\* addDoc rejects: the catch block calls loadTodayRecords (lines 241-245)
AddDocRejects ==
    /\ \E i \in 1..Len(calls) :
          /\ calls[i].await = "addDoc"
          /\ calls' = [calls EXCEPT ![i].await = "getDocs"]
    /\ UNCHANGED << buttons, todayRecordsCache, attendanceHistory, pipeline >>
    /\ UNCHANGED periodVars
    /\ UNCHANGED dayVars
    /\ UNCHANGED aggVars

\* the query of loadTodayRecords resolves with today's records in ascending
\* order: the cache and the buttons are set from them (lines 163-195)
LoadTodayRecordsResolves ==
    /\ \E i \in 1..Len(calls) :
          /\ calls[i].await = "getDocs"
          /\ calls' = RemoveAt(calls, i)
    /\ todayRecordsCache' = dayRecords
    /\ buttons' = updateButtonStates(dayRecords)
    /\ UNCHANGED << attendanceHistory, pipeline >>
    /\ UNCHANGED periodVars
    /\ UNCHANGED dayVars
    /\ UNCHANGED aggVars

\* the query rejects: the catch block replaces the list by a failure text
\* and touches neither the buttons nor the cache (lines 197-200)
LoadTodayRecordsRejects ==
    /\ \E i \in 1..Len(calls) :
          /\ calls[i].await = "getDocs"
          /\ calls' = RemoveAt(calls, i)
    /\ UNCHANGED << buttons, todayRecordsCache, attendanceHistory, pipeline >>
    /\ UNCHANGED periodVars
    /\ UNCHANGED dayVars
    /\ UNCHANGED aggVars

AddDocSettles == AddDocResolves \/ AddDocRejects

LoadTodayRecordsSettles == LoadTodayRecordsResolves \/ LoadTodayRecordsRejects

NextPage ==
    \/ RecordAttendanceStarts
    \/ AddDocResolves
    \/ AddDocRejects
    \/ LoadTodayRecordsResolves
    \/ LoadTodayRecordsRejects

SpecPage == InitPage /\ [][NextPage]_vars

\* every request to Firestore settles, and the call waiting for it goes on
SpecPageFair ==
    SpecPage /\ WF_vars(AddDocSettles) /\ WF_vars(LoadTodayRecordsSettles)

----------------------------------------------------------------------------
(* The administrator's record editor (js/auth.js) and record list          *)
(* (js/monthly.js): changes and deletions of 'attendance' documents        *)

\* most documents of 'attendance_history'
MaxHistory == 2

\* the signed-in administrator
AdminUser == "admin"

\* date and time typed into the edit modal
EditStamps ==
    { << << 2025, 1, 24 >>, TimeOfDay(9, 30, 0) >>,
      << << 2025, 1, 26 >>, TimeOfDay(18, 0, 0) >> }

\* time (hours, minutes) typed into the unified editor
EditTimes == { << 9, 30 >>, << 18, 0 >> }

EditReasons == { "missed punch" }

\* what the requests of a handler do: the write to 'attendance_history'
\* rejects, or it is stored and the write to 'attendance' rejects, or both
\* are stored
WriteOutcomes == { "historyRejected", "recordRejected", "stored" }

modifiedHistoryData(originalData, reason) ==
    [originalData |-> originalData, modifiedBy |-> AdminUser,
     modificationReason |-> reason]

deletedHistoryData(recordData) ==
    [originalData |-> recordData, deletedBy |-> AdminUser, action |-> "delete"]

\* { ...originalData, timestamp, lastModifiedBy, lastModificationReason }
modifiedRecord(originalData, newTimestamp, reason) ==
    [userId |-> originalData.userId, type |-> originalData.type,
     timestamp |-> newTimestamp,
     lastModifiedBy |-> AdminUser, lastModificationReason |-> reason]

\* addDoc(collection(db, 'attendance_history'), historyData) and then the
\* write `record` to 'attendance', as far as `outcome` lets them go
HistoryThenRecord(outcome, historyData, record) ==
    /\ Len(attendanceHistory) < MaxHistory
    /\ attendanceHistory' =
          IF outcome = "historyRejected" THEN attendanceHistory
          ELSE Append(attendanceHistory, historyData)
    /\ attendance' = IF outcome = "stored" THEN record ELSE attendance

\* saveEdit: the record of the edit modal gets the date and time typed in
SaveEdit ==
    /\ \E originalData \in attendance, stamp \in EditStamps, reason \in EditReasons,
          outcome \in WriteOutcomes :
          HistoryThenRecord(outcome, modifiedHistoryData(originalData, reason),
              (attendance \ { originalData }) \cup
                  { modifiedRecord(originalData,
                       [day |-> DateOfInput(stamp[1]).day, ms |-> stamp[2]], reason) })
    /\ UNCHANGED << users, form, monthlySummaryData, summaryRun, history, monthlySummaries >>
    /\ UNCHANGED << pageVars, pipeline >>
    /\ UNCHANGED periodVars
    /\ UNCHANGED dayVars

\* saveUnifiedRecord: the record keeps its date and gets the time typed in
SaveUnifiedRecord ==
    /\ \E originalData \in attendance, newTime \in EditTimes, reason \in EditReasons,
          outcome \in WriteOutcomes :
          HistoryThenRecord(outcome, modifiedHistoryData(originalData, reason),
              (attendance \ { originalData }) \cup
                  { modifiedRecord(originalData,
                       SetHours(originalData.timestamp, newTime[1], newTime[2], 0, 0),
                       reason) })
    /\ UNCHANGED << users, form, monthlySummaryData, summaryRun, history, monthlySummaries >>
    /\ UNCHANGED << pageVars, pipeline >>
    /\ UNCHANGED periodVars
    /\ UNCHANGED dayVars

\* deleteFromEditModal, confirmed
DeleteFromEditModal ==
    /\ \E recordData \in attendance, outcome \in WriteOutcomes :
          HistoryThenRecord(outcome, deletedHistoryData(recordData),
              attendance \ { recordData })
    /\ UNCHANGED << users, form, monthlySummaryData, summaryRun, history, monthlySummaries >>
    /\ UNCHANGED << pageVars, pipeline >>
    /\ UNCHANGED periodVars
    /\ UNCHANGED dayVars

\* deleteUnifiedRecord, confirmed
DeleteUnifiedRecord ==
    /\ \E recordData \in attendance, outcome \in WriteOutcomes :
          HistoryThenRecord(outcome, deletedHistoryData(recordData),
              attendance \ { recordData })
    /\ UNCHANGED << users, form, monthlySummaryData, summaryRun, history, monthlySummaries >>
    /\ UNCHANGED << pageVars, pipeline >>
    /\ UNCHANGED periodVars
    /\ UNCHANGED dayVars

\* deleteRecord of js/monthly.js, confirmed: deleteDoc on 'attendance'; when
\* it rejects nothing changes
DeleteRecord ==
    /\ \E recordData \in attendance :
          attendance' = attendance \ { recordData }
    /\ UNCHANGED << users, form, monthlySummaryData, summaryRun, history, monthlySummaries >>
    /\ UNCHANGED << pageVars, attendanceHistory, pipeline >>
    /\ UNCHANGED periodVars
    /\ UNCHANGED dayVars

NextAdmin ==
    \/ RecordAttendance
    \/ SaveEdit
    \/ SaveUnifiedRecord
    \/ DeleteFromEditModal
    \/ DeleteUnifiedRecord
    \/ DeleteRecord

SpecAdmin == InitAgg /\ [][NextAdmin]_vars

----------------------------------------------------------------------------
(* The agent orchestrator: main() and reviewAgent                           *)

Agents == << "coordinatorAgent", "codegenAgent", "reviewAgent", "prAgent" >>

\* review.totalScore, out of 100
TotalScores == 0..100

\* reviewAgent line 124, with a strict comparison
passedAbove(review) == review.totalScore > 80

\* reviewAgent line 124: const passed = review.totalScore >= 80
passed(review) == review.totalScore >= 80

\* main() has called coordinatorAgent and waits for it
InitAgents ==
    /\ pipeline = [invoked |-> << "coordinatorAgent" >>, returned |-> << >>,
                   reviewResult |-> NoValue, thrown |-> "", exit |-> NoValue]
    /\ PageClosed
    /\ attendanceHistory = << >>
    /\ dayRecords = << >>
    /\ employeeConfig = NoValue
    /\ clock = NoValue
    /\ dayData = NoValue
    /\ workTime = NoValue
    /\ adminWorkTime = NoValue
    /\ periodArgs = NoValue
    /\ period = NoValue
    /\ attendance = {}
    /\ users = << >>
    /\ form = NoValue
    /\ monthlySummaryData = << >>
    /\ summaryRun = NoValue
    /\ history = NoValue
    /\ monthlySummaries = << >>

\* the agent main() waits for
Awaited ==
    IF pipeline.exit = NoValue /\ Len(pipeline.returned) < Len(pipeline.invoked)
    THEN pipeline.invoked[Len(pipeline.invoked)] ELSE ""

Unchanged == UNCHANGED << periodVars, dayVars, aggVars, pageVars, attendanceHistory >>

\* coordinatorAgent returns the plan; main() calls codegenAgent (lines 32-42)
CoordinatorAgentReturns ==
    /\ Awaited = "coordinatorAgent"
    /\ pipeline' = [pipeline EXCEPT !.returned = Append(@, "coordinatorAgent"),
                                     !.invoked = Append(@, "codegenAgent")]
    /\ Unchanged

\* codegenAgent returns the files; main() calls reviewAgent (lines 43-47)
CodegenAgentReturns ==
    /\ Awaited = "codegenAgent"
    /\ pipeline' = [pipeline EXCEPT !.returned = Append(@, "codegenAgent"),
                                     !.invoked = Append(@, "reviewAgent")]
    /\ Unchanged

\* reviewAgent returns { passed, review }; main() exits with 1 when the
\* review did not pass, and calls prAgent otherwise (lines 47-58)
ReviewAgentReturns ==
    /\ Awaited = "reviewAgent"
    /\ \E totalScore \in TotalScores :
          LET review == [totalScore |-> totalScore]
              result == [passed |-> passed(review), review |-> review]
          IN  pipeline' =
                IF ~ result.passed
                THEN [pipeline EXCEPT !.returned = Append(@, "reviewAgent"),
                                      !.reviewResult = result,
                                      !.exit = [code |-> 1]]
                ELSE [pipeline EXCEPT !.returned = Append(@, "reviewAgent"),
                                      !.reviewResult = result,
                                      !.invoked = Append(@, "prAgent")]
    /\ Unchanged

\* prAgent returns the metadata; main() exits with 0 (lines 58-72)
PrAgentReturns ==
    /\ Awaited = "prAgent"
    /\ pipeline' = [pipeline EXCEPT !.returned = Append(@, "prAgent"),
                                     !.exit = [code |-> 0]]
    /\ Unchanged

\* the awaited agent throws (each rethrows from its catch block); the catch
\* block of main() exits with 1 (lines 73-81)
AgentThrows ==
    /\ Awaited # ""
    /\ pipeline' = [pipeline EXCEPT !.thrown = Awaited, !.exit = [code |-> 1]]
    /\ Unchanged

NextAgents ==
    \/ CoordinatorAgentReturns
    \/ CodegenAgentReturns
    \/ ReviewAgentReturns
    \/ PrAgentReturns
    \/ AgentThrows

SpecAgents == InitAgents /\ [][NextAgents]_vars

----------------------------------------------------------------------------
(* Properties of the period aggregation                                    *)

\* a summary has been requested and accepted
Summarized == form # NoValue /\ WindowOf(form) # NoValue

\* the window of the accepted request, as a one-element set: a formula binds
\* it once with \E w \in SummaryWindow
SummaryWindow == { WindowOf(form) }

InWindow(r, w) == DateLE(w.periodStart, r.timestamp) /\ DateLE(r.timestamp, w.periodEnd)

\* the employee's records of one calendar day inside the window
RecordsOn(userId, day, w) ==
    { r \in attendance : r.userId = userId /\ r.timestamp.day = day /\ InWindow(r, w) }

\* the employee's calendar days that have a record inside the window
DaysOf(userId, w) ==
    { r.timestamp.day : r \in { q \in attendance : q.userId = userId /\ InWindow(q, w) } }

HasType(docs, type) == \E r \in docs : r.type = type

\* the summary the aggregation yields for `userId` from the documents
\* `docs`; all counters zero when the employee has no record left
SummaryFrom(docs, userId, w) ==
    LET summaries == SummariesOf(docs, w, form.monthlyEmployeeFilter)
    IN  IF \E j \in 1..Len(summaries) : summaries[j].userId = userId
        THEN summaries[CHOOSE j \in 1..Len(summaries) : summaries[j].userId = userId]
        ELSE SummaryOf(userId, ZeroTotals, loadEmployeeData[userId])

PaidLeaveDaysOf(userId, w) ==
    { d \in DaysOf(userId, w) : HasType(RecordsOn(userId, d, w), "paid_leave") }

\* C4: every employee-day that contains a PaidLeave event adds 1 to
\* paidLeaveDays and nothing to workingDays, work time, overtime, lateness or
\* early-leave totals, whatever clock events the day also holds: the summary
\* is the one obtained without the records of those days, plus their count.
C4_PaidLeaveShortCircuit ==
    Summarized =>
        \A w \in SummaryWindow, i \in 1..Len(monthlySummaryData) :
            LET s == monthlySummaryData[i]
                leave == PaidLeaveDaysOf(s.userId, w)
                others == { r \in attendance :
                              ~ (r.userId = s.userId /\ r.timestamp.day \in leave) }
            IN  /\ s.paidLeaveDays = Cardinality(leave)
                /\ [s EXCEPT !.paidLeaveDays = 0] = SummaryFrom(others, s.userId, w)

\* a paid-leave day that also holds a clock-in and a clock-out
C4_Witness ==
    /\ Summarized
    /\ \E w \in SummaryWindow, i \in 1..Len(monthlySummaryData) :
          /\ monthlySummaryData[i].paidLeaveDays = 1
          /\ monthlySummaryData[i].workingDays = 0
          /\ \E d \in DaysOf(monthlySummaryData[i].userId, w) :
                /\ HasType(RecordsOn(monthlySummaryData[i].userId, d, w), "paid_leave")
                /\ HasType(RecordsOn(monthlySummaryData[i].userId, d, w), "clock_in")
                /\ HasType(RecordsOn(monthlySummaryData[i].userId, d, w), "clock_out")

NoClockOutDaysOf(userId, w) ==
    { d \in DaysOf(userId, w) : /\ HasType(RecordsOn(userId, d, w), "clock_in")
                             /\ ~ HasType(RecordsOn(userId, d, w), "clock_out") }

\* the totals a worked day feeds
WorkTotals(s) ==
    << s.workingDays, s.totalWorkHours, s.totalOvertimeHours, s.latenessCount,
       s.totalLatenessMinutes, s.earlyLeaveCount, s.totalEarlyLeaveMinutes,
       s.holidayWorkDays, s.holidayWorkHours >>

\* C5: an employee-day with a ClockIn but no ClockOut is not counted in
\* workingDays and adds nothing to the work-time, overtime, lateness,
\* early-leave and holiday totals: these are the totals obtained without the
\* records of those days.
C5_NoClockOutExcluded ==
    Summarized =>
        \A w \in SummaryWindow, i \in 1..Len(monthlySummaryData) :
            LET s == monthlySummaryData[i]
                open == NoClockOutDaysOf(s.userId, w)
                others == { r \in attendance :
                              ~ (r.userId = s.userId /\ r.timestamp.day \in open) }
            IN  /\ WorkTotals(s) = WorkTotals(SummaryFrom(others, s.userId, w))
                /\ s.workingDays <= Cardinality(DaysOf(s.userId, w) \ open)

\* a summarised employee whose only day in the window has a clock-in alone
C5_Witness ==
    /\ Summarized
    /\ \E w \in SummaryWindow, i \in 1..Len(monthlySummaryData) :
          /\ NoClockOutDaysOf(monthlySummaryData[i].userId, w) # {}
          /\ NoClockOutDaysOf(monthlySummaryData[i].userId, w) = DaysOf(monthlySummaryData[i].userId, w)
          /\ PaidLeaveDaysOf(monthlySummaryData[i].userId, w) = {}
          /\ monthlySummaryData[i].workingDays = 0
          /\ monthlySummaryData[i].absenceDays = 0

AbsenceDaysOf(userId, w) ==
    { d \in DaysOf(userId, w) : /\ HasType(RecordsOn(userId, d, w), "absence")
                             /\ ~ HasType(RecordsOn(userId, d, w), "paid_leave") }

NormalDaysOf(userId, w) ==
    { d \in DaysOf(userId, w) : /\ HasType(RecordsOn(userId, d, w), "clock_in")
                             /\ HasType(RecordsOn(userId, d, w), "clock_out")
                             /\ ~ HasType(RecordsOn(userId, d, w), "absence")
                             /\ ~ HasType(RecordsOn(userId, d, w), "paid_leave") }

\* C6: every employee-day falls into exactly one of the classes normal
\* workday, paid-leave day, absence day, excluded: the three counters count
\* disjoint sets of days, so no day is counted in more than one of
\* workingDays, paidLeaveDays and absenceDays.
C6_OneClassPerDay ==
    Summarized =>
        \A w \in SummaryWindow, i \in 1..Len(monthlySummaryData) :
            LET s == monthlySummaryData[i]
            IN  /\ s.paidLeaveDays = Cardinality(PaidLeaveDaysOf(s.userId, w))
                /\ s.absenceDays = Cardinality(AbsenceDaysOf(s.userId, w))
                /\ s.workingDays = Cardinality(NormalDaysOf(s.userId, w))
                /\ s.workingDays + s.paidLeaveDays + s.absenceDays
                       <= Cardinality(DaysOf(s.userId, w))

\* a day that holds an absence record together with a clock-in and a
\* clock-out, counted once
C6_Witness ==
    /\ Summarized
    /\ \E w \in SummaryWindow, i \in 1..Len(monthlySummaryData) :
          /\ monthlySummaryData[i].absenceDays = 1
          /\ monthlySummaryData[i].workingDays + monthlySummaryData[i].paidLeaveDays = 0
          /\ \E d \in DaysOf(monthlySummaryData[i].userId, w) :
                /\ HasType(RecordsOn(monthlySummaryData[i].userId, d, w), "absence")
                /\ HasType(RecordsOn(monthlySummaryData[i].userId, d, w), "clock_in")
                /\ HasType(RecordsOn(monthlySummaryData[i].userId, d, w), "clock_out")

\* the per-day result of the employee's day d
DayDataOf(userId, d, w) ==
    calculateDayWorkData(OrderedByTimestamp(RecordsOn(userId, d, w)),
                         loadEmployeeData[userId], [day |-> d, ms |-> 0])

\* sum of value[d] over the days of a set
RECURSIVE SumOverDays(_, _)
SumOverDays(days, value) ==
    IF days = {} THEN 0
    ELSE LET d == CHOOSE x \in days : TRUE
         IN  value[d] + SumOverDays(days \ {d}, value)

EmployeesInWindow(w) ==
    { u \in UserIds : /\ DaysOf(u, w) # {}
                      /\ form.monthlyEmployeeFilter \in {"", u} }

\* C13: the aggregation produces exactly one summary for every employee that
\* has events in the window and passes the employee filter, and none for
\* anyone else; an employee without a stored schedule is summarised too.
C13_OneSummaryPerEmployee ==
    (Summarized /\ summaryRun.messageType = "success") =>
        \A w \in SummaryWindow, u \in UserIds :
            Cardinality({ i \in 1..Len(monthlySummaryData) : monthlySummaryData[i].userId = u })
                = IF u \in EmployeesInWindow(w) THEN 1 ELSE 0

\* a date of the screen, as a number that orders the dates
DateNumber(ymd) == ymd[1] * 10000 + ymd[2] * 100 + ymd[3]

\* the inputs ask for a custom range whose start date is after its end date
StartAfterEnd(f) ==
    /\ f.periodType = "custom"
    /\ f.customStartDate # << >>
    /\ f.customEndDate # << >>
    /\ DateNumber(f.customStartDate) > DateNumber(f.customEndDate)

\* C14: a custom-range request whose start date is after its end date is
\* rejected with an error before anything is fetched (no getDocs call), and
\* the summaries computed before stay as they were.
C14_InvalidRangeRejected ==
    [][ (form' \in Forms /\ StartAfterEnd(form')) =>
            /\ summaryRun'.messageType = "error"
            /\ summaryRun'.getDocs = 0
            /\ monthlySummaryData' = monthlySummaryData ]_vars

\* a rejected request made after a successful one: the earlier summaries are
\* still there
C14_Witness ==
    /\ form \in Forms
    /\ StartAfterEnd(form)
    /\ summaryRun.runs = 2
    /\ summaryRun.messageType = "error"
    /\ monthlySummaryData # << >>

\* C17: a day whose workMinutes is negative (the first ClockOut lies before
\* the first ClockIn) is reported as malformed and kept out of the totals:
\* workingDays and the work total cover only the days with workMinutes >= 0.
C17_NegativeDayReported ==
    Summarized =>
        \A w \in SummaryWindow, i \in 1..Len(monthlySummaryData) :
            LET s == monthlySummaryData[i]
                sound == { d \in NormalDaysOf(s.userId, w) :
                              DayDataOf(s.userId, d, w).workMinutes >= 0 }
                WorkOf == [d \in sound |-> DayDataOf(s.userId, d, w).workMinutes]
            IN  /\ s.workingDays = Cardinality(sound)
                /\ s.totalWorkHours = ToFixedHours(SumOverDays(sound, WorkOf))

\* workingDays / expected * 100 in tenths of a percent, to the nearest tenth
RatePercent(workingDays, expected) == (2000 * workingDays + expected) \div (2 * expected)

\* values of expectedWorkingDays a caller supplies: 20, and the 22 weekdays
\* of the window 2024-12-26..2025-01-25
SuppliedExpectedWorkingDays == {20, 22}

\* C18 as stated: the attendance rate is workingDays / expectedWorkingDays *
\* 100 for the expectedWorkingDays supplied to the call, whichever it is.
C18_RateOfSuppliedDays ==
    Summarized =>
        \A expected \in SuppliedExpectedWorkingDays, i \in 1..Len(monthlySummaryData) :
            monthlySummaryData[i].attendanceRate
                = RatePercent(monthlySummaryData[i].workingDays, expected)

\* C18: the attendance rate is workingDays / 20 * 100 in every call: the
\* expected working days are the constant 20 of the engine.
C18_RateOfTwentyDays ==
    Summarized =>
        \A i \in 1..Len(monthlySummaryData) :
            monthlySummaryData[i].attendanceRate
                = RatePercent(monthlySummaryData[i].workingDays, 20)

\* an employee with one working day in a window of 22 weekdays: 5.0 percent
C18_Witness ==
    /\ Summarized
    /\ form.periodType = "monthly"
    /\ \E i \in 1..Len(monthlySummaryData) :
          /\ monthlySummaryData[i].workingDays = 1
          /\ monthlySummaryData[i].attendanceRate = 50

\* C19: the aggregation is idempotent: a run on the same documents,
\* schedules and inputs as the run before leaves the same summaries, and
\* after every completed run the summaries are those a first run on these
\* inputs gives, whatever was requested before.
C19_Idempotent ==
    /\ [][ (/\ summaryRun.messageType = "success"
            /\ summaryRun'.messageType = "success"
            /\ form' = form) => monthlySummaryData' = monthlySummaryData ]_vars
    /\ [](summaryRun.messageType = "success" =>
             monthlySummaryData
                 = SummariesOf(attendance, WindowOf(form), form.monthlyEmployeeFilter))

\* a second completed run that produced summaries
C19_Witness ==
    /\ summaryRun.runs >= 2
    /\ summaryRun.messageType = "success"
    /\ Len(monthlySummaryData) = 2

\* C25: in every summary the holiday days, the late days and the
\* early-leave days are at most the working days, and every counted late
\* arrival or early leave contributes at least one minute.
C25_CountersConsistent ==
    \A i \in 1..Len(monthlySummaryData) :
        LET s == monthlySummaryData[i]
        IN  /\ s.holidayWorkDays <= s.workingDays
            /\ s.latenessCount <= s.workingDays
            /\ s.earlyLeaveCount <= s.workingDays
            /\ s.totalLatenessMinutes >= s.latenessCount
            /\ s.totalEarlyLeaveMinutes >= s.earlyLeaveCount

\* an employee whose only working day is a Sunday with a late arrival and an
\* early leave: every count equals the working days
C25_Witness ==
    \E i \in 1..Len(monthlySummaryData) :
        /\ monthlySummaryData[i].workingDays = 1
        /\ monthlySummaryData[i].holidayWorkDays = 1
        /\ monthlySummaryData[i].latenessCount = 1
        /\ monthlySummaryData[i].totalLatenessMinutes = 20
        /\ monthlySummaryData[i].earlyLeaveCount = 1
        /\ monthlySummaryData[i].totalEarlyLeaveMinutes = 28

----------------------------------------------------------------------------
(* Properties of the history view                                          *)

NonDecreasing(records) ==
    \A i \in 1..(Len(records) - 1) : DateLE(records[i].timestamp, records[i + 1].timestamp)

\* the outcome the claim asks for on unordered input
UnorderedEventsError == [error |-> "UnorderedEventsError"]

\* C15: a day's events that are not in non-decreasing timestamp order are
\* never computed as given or silently reordered: the day's result is the
\* error UnorderedEventsError.
C15_UnorderedRejected ==
    (history # NoValue /\ history.status = "rendered") =>
        \A i \in 1..Len(history.days) :
            ~ NonDecreasing(history.days[i].records)
                => history.days[i].workTime = UnorderedEventsError

\* the records the history query returned for the screen's account and range
HistoryRecords ==
    QueryHistory(attendance, history.userId,
                 DateOfIsoString(history.range.historyStartDate),
                 SetHours(DateOfIsoString(history.range.historyEndDate), 23, 59, 59, 999))

\* C16: a record whose kind the view does not recognise is dropped without
\* aborting the batch: the history still shows every day of the range, each
\* computed from the remaining records.
C16_UnknownKindDropped ==
    (history # NoValue /\ history.status \in {"rendered", "failed"}) =>
        LET known == SelectSeq(HistoryRecords, LAMBDA r : r.type \in typeConfig)
        IN  /\ history.status = "rendered"
            /\ history.days = DayGroups(KeysInOrder(known, DateKeyOf, {}), known, HistoryNow)

----------------------------------------------------------------------------
(* Properties of one employee-day                                          *)

DayDataComputed == dayData # NoValue /\ dayData # Null
WorkTimeComputed == workTime # NoValue /\ workTime # Null
AdminWorkTimeComputed == adminWorkTime # NoValue /\ adminWorkTime # Null

FirstClockIn == Find(dayRecords, "clock_in")
FirstClockOut == Find(dayRecords, "clock_out")

\* single-pass stack pairing of the specification (4.2): a BreakStart is
\* pushed, a BreakEnd closes the most recently opened unclosed BreakStart;
\* the result is the summed duration of the closed intervals
RECURSIVE StackBreakMsFrom(_, _, _)
StackBreakMsFrom(records, i, open) ==
    IF i > Len(records) THEN 0
    ELSE IF records[i].type = "break_start"
         THEN StackBreakMsFrom(records, i + 1, << records[i].timestamp >> \o open)
    ELSE IF records[i].type = "break_end" /\ open # << >>
         THEN DateDiff(records[i].timestamp, Head(open))
                  + StackBreakMsFrom(records, i + 1, Tail(open))
    ELSE StackBreakMsFrom(records, i + 1, open)

StackBreakMs(records) == StackBreakMsFrom(records, 1, << >>)

\* the break_start at position i has no later break_end
Unterminated(records, i) ==
    /\ records[i].type = "break_start"
    /\ \A j \in (i + 1)..Len(records) : records[j].type # "break_end"

\* C1 (as claimed): in period aggregation a day with ClockIn and ClockOut has
\* workMinutes = minutes(ClockOut - ClockIn) minus the summed durations of the
\* day's closed break intervals (09:00 / 12:00-13:00 / 18:00 gives 480).
C1_BreaksDeducted ==
    DayDataComputed =>
        dayData.workMinutes =
            (DateDiff(FirstClockOut.timestamp, FirstClockIn.timestamp)
                 - StackBreakMs(dayRecords)) \div MsPerMinute

\* C1 (amended): in period aggregation a day with ClockIn and ClockOut has
\* workMinutes = whole minutes from the first ClockIn to the first ClockOut;
\* break intervals are not deducted (09:00 / 12:00-13:00 / 18:00 gives 540).
C1_GrossMinutes ==
    /\ DayDataComputed =>
          /\ FirstClockIn # NoValue /\ FirstClockOut # NoValue
          /\ dayData.workMinutes * MsPerMinute <=
                 DateDiff(FirstClockOut.timestamp, FirstClockIn.timestamp)
          /\ DateDiff(FirstClockOut.timestamp, FirstClockIn.timestamp) <
                 (dayData.workMinutes + 1) * MsPerMinute
    /\ (dayData = Null) => (FirstClockIn = NoValue \/ FirstClockOut = NoValue)

\* a day 09:00 in, a closed break 12:00-13:00, 18:00 out: 540 minutes
C1_Witness ==
    /\ DayDataComputed
    /\ Len(dayRecords) = 4
    /\ dayRecords[1].type = "clock_in" /\ dayRecords[1].timestamp.ms = TimeOfDay(9, 0, 0)
    /\ dayRecords[2].type = "break_start" /\ dayRecords[2].timestamp.ms = TimeOfDay(12, 0, 0)
    /\ dayRecords[3].type = "break_end" /\ dayRecords[3].timestamp.ms = TimeOfDay(13, 0, 0)
    /\ dayRecords[4].type = "clock_out" /\ dayRecords[4].timestamp.ms = TimeOfDay(18, 0, 0)
    /\ dayData.workMinutes = 540

\* C2: break pairing follows stack discipline: each BreakEnd closes exactly
\* the most recently opened unclosed BreakStart, no BreakEnd belongs to two
\* intervals, and the deducted time is that of the stack-paired intervals.
C2_StackDiscipline ==
    /\ WorkTimeComputed =>
          /\ \A i, j \in 1..Len(BreakPairs(dayRecords)) :
                i # j => BreakPairs(dayRecords)[i].end # BreakPairs(dayRecords)[j].end
          /\ [hours |-> workTime.hours, minutes |-> workTime.minutes] =
                HoursMinutes(DateDiff(IF FirstClockOut # NoValue
                                      THEN FirstClockOut.timestamp ELSE clock,
                                      FirstClockIn.timestamp)
                             - StackBreakMs(dayRecords))
    /\ AdminWorkTimeComputed =>
          adminWorkTime =
                HoursMinutes(DateDiff(IF FirstClockOut # NoValue
                                      THEN FirstClockOut.timestamp ELSE clock,
                                      FirstClockIn.timestamp)
                             - StackBreakMs(dayRecords))

\* C3: a BreakStart with no later BreakEnd in the day subtracts nothing and
\* makes the result carry the open-break flag, wherever it occurs in the day.
C3_OpenBreakFlagged ==
    WorkTimeComputed =>
        \A i \in 1..Len(dayRecords) :
            Unterminated(dayRecords, i) =>
                /\ \A k \in 1..Len(BreakPairs(dayRecords)) :
                      BreakPairs(dayRecords)[k].start # dayRecords[i].timestamp
                /\ workTime.isOnBreak

\* the schedule the claims C8 - C10 refer to: the employee's own value, the
\* default only where none is configured
OwnStartTime ==
    IF employeeConfig # Null /\ employeeConfig.startTime # ""
    THEN employeeConfig.startTime ELSE "09:00"
OwnEndTime ==
    IF employeeConfig # Null /\ employeeConfig.endTime # ""
    THEN employeeConfig.endTime ELSE "18:00"
OwnStandardMinutes ==
    IF employeeConfig # Null /\ employeeConfig.standardWorkTime # 0
    THEN 60 * employeeConfig.standardWorkTime ELSE 480

MsOfSchedule(hhmm) == TimeOfDay(SplitTime(hhmm)[1], SplitTime(hhmm)[2], 0)

\* C8: lateMinutes = max(0, whole minutes from scheduledStart on that date
\* to ClockIn), isLate exactly when lateMinutes > 0, with the employee's own
\* schedule (the default only when none is configured).
C8_Lateness ==
    DayDataComputed =>
        /\ dayData.lateMinutes =
              Max(0, ((WorkDate.day - FirstClockIn.timestamp.day) * (0 - MsPerDay)
                      + FirstClockIn.timestamp.ms - MsOfSchedule(OwnStartTime))
                     \div MsPerMinute)
        /\ dayData.isLate = (dayData.lateMinutes > 0)

\* ClockIn 09:20 against the default 09:00: 20 minutes late
C8_Witness ==
    /\ DayDataComputed
    /\ employeeConfig = Null
    /\ FirstClockIn.timestamp.ms = TimeOfDay(9, 20, 0)
    /\ dayData.lateMinutes = 20 /\ dayData.isLate

\* C9: earlyLeaveMinutes = max(0, whole minutes from ClockOut to scheduledEnd
\* on the work date), isEarlyLeave exactly when earlyLeaveMinutes > 0,
\* whatever the lateness and overtime of the day.
C9_EarlyLeave ==
    DayDataComputed =>
        /\ dayData.earlyLeaveMinutes =
              Max(0, ((WorkDate.day - FirstClockOut.timestamp.day) * MsPerDay
                      + MsOfSchedule(OwnEndTime) - FirstClockOut.timestamp.ms)
                     \div MsPerMinute)
        /\ dayData.isEarlyLeave = (dayData.earlyLeaveMinutes > 0)

\* a late day (in 09:20) left early (out 17:02 against 18:00): 58 minutes
C9_Witness ==
    /\ DayDataComputed
    /\ employeeConfig = Null
    /\ dayData.isLate
    /\ FirstClockOut.timestamp.ms = TimeOfDay(17, 2, 0)
    /\ dayData.earlyLeaveMinutes = 58 /\ dayData.isEarlyLeave

\* C10: overtimeMinutes = max(0, workMinutes - standardWorkHours * 60), in
\* whole minutes, for every worked day and schedule.
C10_OvertimeExact ==
    DayDataComputed =>
        dayData.overtimeMinutes = Max(0, dayData.workMinutes - OwnStandardMinutes)

\* 2025-01-25 is a Saturday: a day is a Saturday or a Sunday when it lies a
\* whole number of weeks after that Saturday or after the Sunday that follows
OnWeekend(day) == (day - MakeDay(2025, 0, 25)) % 7 \in {0, 1}

RECURSIVE StackPairsFrom(_, _, _)
StackPairsFrom(records, i, open) ==
    IF i > Len(records) THEN {}
    ELSE IF records[i].type = "break_start"
         THEN StackPairsFrom(records, i + 1, << records[i].timestamp >> \o open)
    ELSE IF records[i].type = "break_end" /\ open # << >>
         THEN { [start |-> Head(open), end |-> records[i].timestamp] }
                  \cup StackPairsFrom(records, i + 1, Tail(open))
    ELSE StackPairsFrom(records, i + 1, open)

\* C20: for every day sequence the nested-loop first-match pairing of the
\* source yields the same set of break intervals and the same total break
\* duration as the single-pass stack pairing.
C20_PairingsAgree ==
    (WorkTimeComputed \/ AdminWorkTimeComputed) =>
        /\ { BreakPairs(dayRecords)[i] : i \in 1..Len(BreakPairs(dayRecords)) }
               = StackPairsFrom(dayRecords, 1, << >>)
        /\ BreakMs(BreakPairs(dayRecords)) = StackBreakMs(dayRecords)
        /\ BreakMsFrom(SortByTimestamp(dayRecords), 1) = StackBreakMs(dayRecords)

----------------------------------------------------------------------------
(* Properties of the call sites of the day calculation                     *)

\* every interval of the first-match pairing ends no earlier than it starts
PairsForward(records) ==
    \A i \in 1..Len(BreakPairs(records)) :
        DateLE(BreakPairs(records)[i].start, BreakPairs(records)[i].end)

\* C21: at every call site of the day calculation the day's events are
\* passed in ascending timestamp order, so every paired break interval has
\* end >= start and the deducted break time is never negative.
C21_AscendingAtCallSites ==
    /\ WorkTimeComputed =>
          /\ NonDecreasing(dayRecords)
          /\ PairsForward(dayRecords)
          /\ BreakMs(BreakPairs(dayRecords)) >= 0
    /\ (history # NoValue /\ history.status = "rendered") =>
          \A i \in 1..Len(history.days) :
              /\ NonDecreasing(history.days[i].records)
              /\ PairsForward(history.days[i].records)
              /\ BreakMs(BreakPairs(history.days[i].records)) >= 0

----------------------------------------------------------------------------
(* Properties of consecutive closing-day windows                           *)

\* the window of the month after the one of periodArgs, same closing day
NextMonthPeriod ==
    IF periodArgs.month = 12
    THEN calculatePeriod(periodArgs.year + 1, 1, periodArgs.closingDay)
    ELSE calculatePeriod(periodArgs.year, periodArgs.month + 1, periodArgs.closingDay)

\* C22: for every closingDay in 1..31 the windows of consecutive months tile
\* the calendar: the window of month m+1 starts at 00:00:00.000 of the day
\* after the one on which the window of month m ends at 23:59:59.999.
C22_WindowsTile ==
    period # NoValue =>
        /\ period.periodEnd.ms = TimeOfDay(23, 59, 59) + 999
        /\ NextMonthPeriod.periodStart = [day |-> period.periodEnd.day + 1, ms |-> 0]

----------------------------------------------------------------------------
(* Properties of the saved summaries                                       *)

\* C23: the periodStart and periodEnd stored with a saved summary are the
\* dates of the window over which that summary was aggregated, in monthly
\* mode and in custom-range mode, whatever the year and month fields hold
\* when the summary is saved.
C23_SavedWindow ==
    \A id \in DOMAIN monthlySummaries :
        \A w \in SummaryWindow :
            /\ monthlySummaries[id].periodStart = DateKey(w.periodStart)
            /\ monthlySummaries[id].periodEnd = DateKey(w.periodEnd)

\* the minutes calculateMonthlySummary accumulated for the employee of a
\* saved document
AccumulatedTotals(userId, w) ==
    LET worked == NormalDaysOf(userId, w)
    IN  [totalWorkMinutes |->
             SumOverDays(worked, [d \in worked |-> DayDataOf(userId, d, w).workMinutes]),
         totalOvertimeMinutes |->
             SumOverDays(worked, [d \in worked |-> DayDataOf(userId, d, w).overtimeMinutes])]

\* C24: the totalWorkMinutes and overtimeMinutes written by
\* saveMonthlySummary are the minute totals calculateMonthlySummary
\* accumulated for that employee.
C24_SavedMinutes ==
    \A id \in DOMAIN monthlySummaries :
        \A w \in SummaryWindow :
            /\ monthlySummaries[id].totalWorkMinutes
                   = AccumulatedTotals(id[1], w).totalWorkMinutes
            /\ monthlySummaries[id].overtimeMinutes
                   = AccumulatedTotals(id[1], w).totalOvertimeMinutes

----------------------------------------------------------------------------
(* Properties of the live display                                          *)

\* the minutes the display shows
DisplayedMinutes(w) == 60 * w.hours + w.minutes

\* C26: while the employee is on a break (the last record of the day is a
\* break_start and there is no clock_out) the displayed working time does not
\* increase from one update of the display to the next
C26_PausedOnBreak ==
    [][ ( /\ WorkTimeComputed
          /\ workTime' # NoValue /\ workTime' # Null
          /\ dayRecords' = dayRecords
          /\ dayRecords[Len(dayRecords)].type = "break_start"
          /\ ~ Some(dayRecords, "clock_out") )
        => DisplayedMinutes(workTime') <= DisplayedMinutes(workTime) ]_vars

----------------------------------------------------------------------------
(* Properties of the recording page                                        *)

TypesOf(records) == [i \in 1..Len(records) |-> records[i].type]

CountOf(types, type) == Cardinality({ i \in 1..Len(types) : types[i] = type })

\* C27: pressing only buttons that updateButtonStates enabled, today's punches
\* are clock_in, (break_start, break_end)*, clock_out or a beginning of it:
\* one clock_in at most and one clock_out at most, break_start and break_end
\* alternate, no break is open at clock_out, and after clock_out no button is
\* enabled
C27_PunchGrammar ==
    LET t == TypesOf(dayRecords)
    IN  /\ Len(t) > 0 => t[1] = "clock_in"
        /\ CountOf(t, "clock_in") <= 1
        /\ CountOf(t, "clock_out") <= 1
        /\ \A i \in 2..Len(t) :
              /\ t[i] = "break_start" => t[i - 1] \in {"clock_in", "break_end"}
              /\ t[i] = "break_end" => t[i - 1] = "break_start"
              /\ t[i] = "clock_out" => t[i - 1] \in {"clock_in", "break_end"}
              /\ t[i - 1] # "clock_out"
        /\ Some(dayRecords, "clock_out") => buttons = {}

\* a write of recordAttendance is in flight
WritesInFlight == { i \in 1..Len(calls) : calls[i].await = "addDoc" }

\* a call of recordAttendance has started and not finished
Recording == \E i \in 1..Len(calls) : calls[i].type # ""

\* while a call of recordAttendance has not finished the four buttons are
\* disabled, and at most one write is in flight
ButtonsDisabledWhileRecording ==
    /\ Recording => buttons = {}
    /\ Cardinality(WritesInFlight) <= 1

\* C28: while a call of recordAttendance has not finished, the four buttons
\* are disabled and at most one write is in flight; and once a call has
\* started, the page comes to rest with the buttons set from the stored
\* records
C28_DoublePunchPrevention ==
    /\ []ButtonsDisabledWhileRecording
    /\ Recording ~> (calls = << >> /\ buttons = updateButtonStates(dayRecords))

----------------------------------------------------------------------------
(* Properties of the administrator's changes                               *)

\* C29: whenever an administrator's operation changes or deletes a document
\* of 'attendance', the operation has first added a document to
\* 'attendance_history' that holds the original data of that document
C29_HistoryBeforeChange ==
    [][ \A recordData \in attendance \ attendance' :
            \E i \in (Len(attendanceHistory) + 1)..Len(attendanceHistory') :
                attendanceHistory'[i].originalData = recordData ]_vars

----------------------------------------------------------------------------
(* Properties of the agent orchestrator                                    *)

IsPrefix(a, b) == Len(a) <= Len(b) /\ \A i \in 1..Len(a) : a[i] = b[i]

\* C30: the agents are invoked in the order Coordinator, CodeGen, Review, PR,
\* each after the one before it returned; prAgent is invoked only after
\* reviewAgent returned passed = true, and passed is true exactly when
\* totalScore >= 80; after a failed review or a throw the exit code is 1 and
\* no later agent has been invoked; the exit code is 0 only after all four
\* agents returned
C30_PipelineOrder ==
    LET p == pipeline
        n == Len(p.invoked)
    IN  /\ IsPrefix(p.invoked, Agents)
        /\ IsPrefix(p.returned, p.invoked)
        /\ Len(p.returned) >= n - 1
        /\ ("prAgent" \in { p.invoked[i] : i \in 1..n }) =>
              /\ p.reviewResult # NoValue
              /\ p.reviewResult.passed
        /\ p.reviewResult # NoValue =>
              /\ p.reviewResult.passed <=> p.reviewResult.review.totalScore >= 80
              /\ ~ p.reviewResult.passed => p.exit = [code |-> 1] /\ n = 3
        /\ p.thrown # "" =>
              /\ p.exit = [code |-> 1]
              /\ p.invoked[n] = p.thrown
              /\ Len(p.returned) = n - 1
        /\ p.exit = [code |-> 0] => p.returned = Agents /\ p.thrown = ""

\* a review with exactly 80 points passed, and the run ended with exit code 0
C30_Witness ==
    /\ pipeline.exit = [code |-> 0]
    /\ pipeline.reviewResult.review.totalScore = 80

\* a review with 79 points ended the run before prAgent
C30_FailedReview ==
    /\ pipeline.reviewResult # NoValue
    /\ pipeline.reviewResult.review.totalScore = 79
    /\ pipeline.exit = [code |-> 1]

====
